---- MODULE Spec2Model ----
(***************************************************************************)
(* State-machine model of the integrator dashboard front end:              *)
(*   - the client-filtering diff browser   (contexts: unnamed/part_001)    *)
(*   - the server-paginated diff browser   (components/DisplaySnapshotDiff)*)
(*   - the collection import flow          (unnamed/part_002, part_004,    *)
(*                                          components/IntegratorApp)      *)
(*   - the session holder and HTTP client  (unnamed/part_000, services/api)*)
(*                                                                         *)
(* JavaScript strings are modelled as sequences of one-character strings,  *)
(* so that toLowerCase, includes, charAt and slice are computed and not    *)
(* assumed.  `undefined` and `null` are distinct marker values.            *)
(***************************************************************************)
EXTENDS Integers, Sequences, FiniteSets, Bags, TLC

VARIABLES
  \* ---- diff browser (both implementations share the React state names)
  mounted,             \* the component's mount effects have run
  diffData,            \* prop (client variant) / state (server variant)
  searchTerm,
  filterType,
  groupBy,
  selectedChange,
  currentChangeIndex,  \* client variant only
  view,                \* what the last render computed (filtered list, groups)
  lastOp,              \* the handler that ran last (history, for witnesses)
  \* ---- server-paginated diff browser only
  snapshotId,          \* prop; 0 stands for null (both are falsy)
  loading,
  error,
  debouncedSearchTerm,
  debounceTimer,       \* useDebounce has a timeout pending
  page,
  inflight,            \* diff requests awaiting their response, oldest first
  shownLatest,         \* diffData answers the request issued last (history)
  lastArrived,         \* body of the diff response that arrived last (history)
  lastFailed,          \* the diff request whose failure set the error shown (history)
  lastCause,           \* what last called for a new selection (history):
                       \* "snapshot" / "criteria" when no request was
                       \* outstanding at that moment, else "overlap"
  \* ---- session holder and HTTP client
  token,               \* localStorage 'user_auth_token'
  isAuthenticated,     \* AuthProvider state
  isLoading,           \* AuthProvider state: true until the mount effect ran
  navigation,          \* "pending" once window.location.href was assigned
  requests,            \* requests of the axios instance not yet settled
  lastResult,          \* how the request settled last reached its caller
  \* ---- collection import flow
  variant,             \* which IntegratorApp is mounted: "IntegratorApp.tsx"
                       \* (own upload form) or "part_002" (ImportCollection)
  collections,         \* IntegratorApp state: the locally tracked list
  isLoadingApp,        \* IntegratorApp state isLoading
  selectedFile,
  saves,               \* saveCollection calls of file uploads in flight
  fetches,             \* fetchCollections calls in flight
  postmanCollections,  \* ImportCollection state
  selectedCollectionIds,
  importStatus,
  bulk,                \* the running handleBulkImport: what is left of its
                       \* loop, successCount and errorCount
  statusTimers,        \* pending setTimeout(() => setImportStatus('idle'))
  lastNotice,          \* the notification added last
  isFetchingCollections, \* ImportCollection state
  importError,
  lastBatch,           \* what the handleBulkImport that ended last did (history)
  \* ---- snapshot list (CollectionSnapshotsPage)
  propCollectionId,    \* prop collectionId
  snapshots,
  snapLoading,         \* state loading
  snapError,           \* state error
  fetchingSnapshot,
  collectionInfo,
  pagination,
  snapRequests,        \* getCollectionSnapshots calls in flight
  capture,             \* the refreshSnapShots call in flight, with the page
                       \* and page size its handler closed over
  snapLastOp,           \* what happened last on this page (history)
  \* ---- group headers of the diff browser
  expandedSections,    \* labels of the groups shown expanded
  \* ---- snapshot comparison (CompareSnapshots)
  compareData,
  compareSnapshot1,    \* 0 stands for null (both are falsy)
  compareSnapshot2,
  compareError,        \* state error
  compareLoading,
  compareRequests,     \* changesService.compareSnapshots calls in flight
  compareLastOp,       \* what happened last in this view (history)
  \* ---- notifications (IntegratorApp)
  notifications,
  now,                 \* the reading of Date.now()
  noticeTimers,        \* pending setTimeout callbacks: the id each removes
                       \* and the clock reading at which it is due
  noticeLastOp         \* what happened last to the list (history)

browserVars == <<mounted, diffData, searchTerm, filterType, groupBy,
                 selectedChange, currentChangeIndex, view, lastOp>>

serverVars == <<snapshotId, loading, error, debouncedSearchTerm, debounceTimer,
                page, inflight, shownLatest, lastArrived, lastFailed,
                lastCause>>

httpVars == <<token, isAuthenticated, isLoading, navigation, requests, lastResult>>

importVars == <<variant, collections, isLoadingApp, selectedFile, saves, fetches,
                postmanCollections, selectedCollectionIds, importStatus, bulk,
                statusTimers, lastNotice, isFetchingCollections, importError,
                lastBatch>>

snapshotVars == <<propCollectionId, snapshots, snapLoading, snapError,
                  fetchingSnapshot, collectionInfo, pagination, snapRequests,
                  capture, snapLastOp>>

groupVars == <<expandedSections>>

compareVars == <<compareData, compareSnapshot1, compareSnapshot2, compareError,
                 compareLoading, compareRequests, compareLastOp>>

noticeVars == <<notifications, now, noticeTimers, noticeLastOp>>

vars == <<browserVars, serverVars, httpVars, importVars, snapshotVars, groupVars, compareVars, noticeVars>>

\* ------------------------------------------------------------------------
\* Bounds
\* ------------------------------------------------------------------------
MaxChanges == 3      \* longest change list drawn for the filter/group check
MaxSearchLen == 2    \* longest search string drawn for the filter/group check

\* ------------------------------------------------------------------------
\* JavaScript values
\* ------------------------------------------------------------------------
null == [isNull |-> TRUE]
undefined == <<"<undefined>">>

LowerCaseLetters == <<"a","b","c","d","e","f","g","h","i","j","k","l","m",
                      "n","o","p","q","r","s","t","u","v","w","x","y","z">>
UpperCaseLetters == <<"A","B","C","D","E","F","G","H","I","J","K","L","M",
                      "N","O","P","Q","R","S","T","U","V","W","X","Y","Z">>

toLowerCaseChar(c) ==
  IF \E i \in 1..26 : UpperCaseLetters[i] = c
  THEN LowerCaseLetters[CHOOSE i \in 1..26 : UpperCaseLetters[i] = c]
  ELSE c

toUpperCaseChar(c) ==
  IF \E i \in 1..26 : LowerCaseLetters[i] = c
  THEN UpperCaseLetters[CHOOSE i \in 1..26 : LowerCaseLetters[i] = c]
  ELSE c

toLowerCase(s) == [i \in 1..Len(s) |-> toLowerCaseChar(s[i])]

toUpperCase(s) == [i \in 1..Len(s) |-> toUpperCaseChar(s[i])]

\* String.prototype.includes
includes(s, sub) ==
  \E i \in 0..(Len(s) - Len(sub)) : SubSeq(s, i + 1, i + Len(sub)) = sub

\* JavaScript truthiness of an optional string
Truthy(v) == v # undefined /\ v # <<>>

\* Array.prototype.findIndex(c => c.id === sel?.id): 0-based, -1 when absent
findIndex(arr, sel) ==
  IF sel # null /\ \E i \in 1..Len(arr) : arr[i].id = sel.id
  THEN (CHOOSE i \in 1..Len(arr) :
          arr[i].id = sel.id /\ \A j \in 1..(i - 1) : arr[j].id # sel.id) - 1
  ELSE -1

\* arr[i] with a 0-based index; out of range yields undefined
At(arr, i) == IF i >= 0 /\ i < Len(arr) THEN arr[i + 1] ELSE undefined

\* ------------------------------------------------------------------------
\* String literals of the diff browser
\* ------------------------------------------------------------------------
all == <<"a","l","l">>
added == <<"a","d","d","e","d">>
deleted == <<"d","e","l","e","t","e","d">>
modified == <<"m","o","d","i","f","i","e","d">>
none == <<"n","o","n","e">>
endpoint == <<"e","n","d","p","o","i","n","t">>
type == <<"t","y","p","e">>
AllChangesKey == <<"A","l","l"," ","C","h","a","n","g","e","s">>
CollectionLevelKey == <<"C","o","l","l","e","c","t","i","o","n"," ","L","e","v","e","l">>
constructorKey == <<"c","o","n","s","t","r","u","c","t","o","r">>
toStringKey == <<"t","o","S","t","r","i","n","g">>
valueOfKey == <<"v","a","l","u","e","O","f">>

ChangeTypes == {added, deleted, modified}
FilterTypes == {all} \cup ChangeTypes
GroupBys == {none, endpoint, type}

\* Members every object literal inherits from Object.prototype (a subset):
\* groups[key] finds them although groups has no such own property.
ObjectPrototypeKeys == {constructorKey, toStringKey, valueOfKey}

\* ------------------------------------------------------------------------
\* Client-filtering diff browser: derived values of a render
\* ------------------------------------------------------------------------
\* matchesSearch with the search text compared as typed (toLowerCase forgotten
\* on the search side)
matchesSearch_caseSensitiveTerm(change, term) ==
  \/ term = <<>>
  \/ includes(toLowerCase(change.human_path), term)
  \/ includes(toLowerCase(change.path), term)
  \/ (Truthy(change.endpoint_name)
        /\ includes(toLowerCase(change.endpoint_name), term))

matchesSearch(change, term) ==
  \/ term = <<>>
  \/ includes(toLowerCase(change.human_path), toLowerCase(term))
  \/ includes(toLowerCase(change.path), toLowerCase(term))
  \/ (Truthy(change.endpoint_name)
        /\ includes(toLowerCase(change.endpoint_name), toLowerCase(term)))

\* matchesFilter without the 'all' escape
matchesFilter_noAll(change, ftype) == change.change_type = ftype

matchesFilter(change, ftype) == ftype = all \/ change.change_type = ftype

RECURSIVE filterChanges(_, _, _)
filterChanges(changes, term, ftype) ==
  IF changes = <<>> THEN <<>>
  ELSE (IF matchesSearch(Head(changes), term) /\ matchesFilter(Head(changes), ftype)
        THEN <<Head(changes)>> ELSE <<>>)
       \o filterChanges(Tail(changes), term, ftype)

\* diffData?.changes.filter(...) || []
filteredChangesOf(data, term, ftype) ==
  IF data = null THEN <<>> ELSE filterChanges(data.changes, term, ftype)

\* change_type.charAt(0).toUpperCase() + change_type.slice(1)
Capitalize(s) ==
  IF s = <<>> THEN <<>> ELSE <<toUpperCaseChar(s[1])>> \o SubSeq(s, 2, Len(s))

groupKey(change, gb) ==
  IF gb = endpoint
  THEN (IF Truthy(change.endpoint_name) THEN change.endpoint_name
        ELSE CollectionLevelKey)
  ELSE Capitalize(change.change_type)

\* One pass of the forEach body over `groups`, an insertion-ordered object
\* modelled as the sequence of its own entries.  groups[key] on a key that is
\* not an own property but is inherited is truthy and has no push: TypeError.
RECURSIVE groupFold(_, _, _)
groupFold(groups, rest, gb) ==
  IF rest = <<>> THEN [threw |-> FALSE, entries |-> groups]
  ELSE LET change == Head(rest)
           key == groupKey(change, gb)
           own == {i \in 1..Len(groups) : groups[i].key = key}
       IN IF own # {}
          THEN LET i == CHOOSE j \in own : TRUE
               IN groupFold([groups EXCEPT ![i].changes = Append(@, change)],
                            Tail(rest), gb)
          ELSE IF key \in ObjectPrototypeKeys
               THEN [threw |-> TRUE, entries |-> <<>>]
               ELSE groupFold(Append(groups, [key |-> key, changes |-> <<change>>]),
                              Tail(rest), gb)

groupedChangesOf(filtered, gb) ==
  IF gb = none
  THEN [threw |-> FALSE, entries |-> <<[key |-> AllChangesKey, changes |-> filtered]>>]
  ELSE groupFold(<<>>, filtered, gb)

filteredChanges == filteredChangesOf(diffData, searchTerm, filterType)

groupedChanges == groupedChangesOf(filteredChanges, groupBy)

\* ------------------------------------------------------------------------
\* Inputs of the filter/group check
\* ------------------------------------------------------------------------
Change(id, ctype, hpath, pth, ename) ==
  [id |-> id, change_type |-> ctype, human_path |-> hpath, path |-> pth,
   endpoint_name |-> ename]

\* Changes as the backend may send them: distinct ids, every change type,
\* endpoint_name absent, empty, ordinary, and one that is also the name of an
\* inherited object member.
ChangePool ==
  { Change(1, added,    <<"A","b">>, <<"q">>,     <<"E">>),
    Change(2, modified, <<"q">>,     <<"b","A">>, undefined),
    Change(3, deleted,  <<"q">>,     <<"q">>,     <<"a","B">>),
    Change(4, modified, <<"b">>,     <<"q">>,     <<>>),
    Change(5, added,    <<"a">>,     <<"a">>,     constructorKey),
    Change(6, deleted,  <<"q">>,     <<"q">>,     undefined) }

\* All lists of at most n changes with pairwise distinct ids
ChangeListsOver(pool, n) ==
  UNION { { q \in [1..k -> pool] : \A i, j \in 1..k : i # j => q[i].id # q[j].id }
          : k \in 0..n }

SearchAlphabet == {"a", "B"}

SearchTermsUpTo(n) == UNION { [1..k -> SearchAlphabet] : k \in 0..n }

NotRendered == [rendered |-> FALSE]

NoError == "null"

NoToken == "null"

NoResult == [kind |-> "none", caller |-> "none", outcome |-> "none", status |-> 0]

\* The session holder and the HTTP client before anything happened and with
\* no token persisted
HttpIdle ==
  /\ token = NoToken
  /\ isAuthenticated = FALSE
  /\ isLoading = TRUE
  /\ navigation = "none"
  /\ requests = EmptyBag
  /\ lastResult = NoResult

NoFile == [selected |-> FALSE]

NoBulk == [running |-> FALSE]

NoNotice == [type |-> "none", message |-> "none"]

NoBatch == [ended |-> FALSE]

\* The import flow before IntegratorApp is mounted
ImportIdle ==
  /\ variant = "none"
  /\ collections = <<>>
  /\ isLoadingApp = FALSE
  /\ selectedFile = NoFile
  /\ saves = EmptyBag
  /\ fetches = 0
  /\ postmanCollections = <<>>
  /\ selectedCollectionIds = {}
  /\ importStatus = "idle"
  /\ bulk = NoBulk
  /\ statusTimers = 0
  /\ lastNotice = NoNotice
  /\ isFetchingCollections = FALSE
  /\ importError = ""
  /\ lastBatch = NoBatch

NoCapture == [pending |-> FALSE]

DEFAULT_PAGE_SIZE == 10

\* The snapshot list before CollectionSnapshotsPage is mounted
\* useState(new Set()): no group is expanded
GroupsIdle == expandedSections = {}

\* The comparison view before anything is selected
CompareIdle ==
  /\ compareData = null
  /\ compareSnapshot1 = 0
  /\ compareSnapshot2 = 0
  /\ compareError = NoError
  /\ compareLoading = FALSE
  /\ compareRequests = <<>>
  /\ compareLastOp = "none"

\* useState<Notification[]>([]): no notification, no timer
NotifyIdle ==
  /\ notifications = <<>>
  /\ now = 0
  /\ noticeTimers = <<>>
  /\ noticeLastOp = "none"

SnapshotsIdle ==
  /\ propCollectionId = <<>>
  /\ snapshots = <<>>
  /\ snapLoading = TRUE
  /\ snapError = NoError
  /\ fetchingSnapshot = FALSE
  /\ collectionInfo = null
  /\ pagination = [page |-> 1, pageSize |-> DEFAULT_PAGE_SIZE,
                   totalPages |-> 1, totalItems |-> 0]
  /\ snapRequests = EmptyBag
  /\ capture = NoCapture
  /\ snapLastOp = "none"

\* The diff browser's variables while no diff browser is mounted
BrowserUnused ==
  /\ mounted = FALSE
  /\ diffData = null
  /\ searchTerm = <<>>
  /\ filterType = <<"a","l","l">>
  /\ groupBy = <<"n","o","n","e">>
  /\ selectedChange = null
  /\ currentChangeIndex = 0
  /\ view = NotRendered
  /\ lastOp = "init"

\* The server-paginated browser's own variables while that implementation is
\* not the one mounted
\* No diff request has failed
NoRequest == [snapshotId |-> 0, query |-> <<>>, latest |-> FALSE]

ServerUnused ==
  /\ snapshotId = 0
  /\ loading = FALSE
  /\ error = NoError
  /\ debouncedSearchTerm = <<>>
  /\ debounceTimer = FALSE
  /\ page = 1
  /\ inflight = <<>>
  /\ shownLatest = FALSE
  /\ lastArrived = null
  /\ lastFailed = NoRequest
  /\ lastCause = "none"

FirstOrNull(changes) == IF Len(changes) > 0 THEN changes[1] ELSE null

\* The list view after the component received a change-set and the user set
\* search text, type filter and grouping; nothing rendered yet.
InitFilter ==
  /\ mounted = TRUE
  /\ diffData \in { [changes |-> cs] : cs \in ChangeListsOver(ChangePool, MaxChanges) }
  /\ searchTerm \in SearchTermsUpTo(MaxSearchLen)
  /\ filterType \in FilterTypes
  /\ groupBy \in GroupBys
  /\ selectedChange = FirstOrNull(diffData.changes)
  /\ currentChangeIndex = 0
  /\ view = NotRendered
  /\ lastOp = "init"
  /\ ServerUnused
  /\ HttpIdle
  /\ ImportIdle
  /\ SnapshotsIdle
  /\ GroupsIdle
  /\ CompareIdle
  /\ NotifyIdle

NotCalled == [threw |-> FALSE, entries |-> <<>>]

\* A render of the client-filtering browser computes filteredChanges and,
\* unless the change-set is empty ("No changes detected" replaces the list),
\* Object.entries(groupedChanges()) for the list.
Render ==
  /\ mounted
  /\ diffData # null
  /\ view = NotRendered
  /\ view' = [rendered |-> TRUE, filtered |-> filteredChanges,
              listed |-> Len(diffData.changes) > 0,
              groups |-> IF Len(diffData.changes) > 0 THEN groupedChanges
                         ELSE NotCalled]
  /\ lastOp' = "render"
  /\ UNCHANGED <<mounted, diffData, searchTerm, filterType, groupBy,
                 selectedChange, currentChangeIndex>>
  /\ UNCHANGED <<serverVars, httpVars, importVars, snapshotVars, groupVars, compareVars, noticeVars>>

NextFilter == Render

SpecFilter == InitFilter /\ [][NextFilter]_vars

\* ------------------------------------------------------------------------
\* Vocabulary of the claims
\* ------------------------------------------------------------------------
\* Position (1-based) of the change with c's id in list full, 0 when absent
PosIn(full, c) ==
  IF \E j \in 1..Len(full) : full[j].id = c.id
  THEN CHOOSE j \in 1..Len(full) : full[j].id = c.id
  ELSE 0

\* out holds exactly the elements of full that satisfy Keep, each once, in
\* the order they have in full
SelectsExactly(out, full, Keep(_)) ==
  /\ \A i \in 1..Len(out) : Keep(out[i]) /\ \E j \in 1..Len(full) : full[j] = out[i]
  /\ \A j \in 1..Len(full) : Keep(full[j]) => \E i \in 1..Len(out) : out[i] = full[j]
  /\ \A i1, i2 \in 1..Len(out) : i1 < i2 => PosIn(full, out[i1]) < PosIn(full, out[i2])

\* The letter a character stands for, whatever its case
LetterOf(ch) ==
  IF \E i \in 1..26 : ch \in {LowerCaseLetters[i], UpperCaseLetters[i]}
  THEN CHOOSE i \in 1..26 : ch \in {LowerCaseLetters[i], UpperCaseLetters[i]}
  ELSE ch

\* term occurs in field as a contiguous run, letters compared ignoring case
ContainsIgnoringCase(field, term) ==
  \E i \in 0..(Len(field) - Len(term)) :
     \A k \in 1..Len(term) : LetterOf(field[i + k]) = LetterOf(term[k])

SearchHits(c, term) ==
  \/ ContainsIgnoringCase(c.human_path, term)
  \/ ContainsIgnoringCase(c.path, term)
  \/ (c.endpoint_name # undefined /\ ContainsIgnoringCase(c.endpoint_name, term))

\* C1: with an empty search text, the filtered list is exactly the changes of
\* the chosen type in their original order, and the whole original list under
\* the type filter 'all'.
C1_TypeFilterSelects ==
  (view # NotRendered /\ searchTerm = <<>>) =>
     IF filterType = all
     THEN view.filtered = diffData.changes
     ELSE SelectsExactly(view.filtered, diffData.changes,
                         LAMBDA c : c.change_type = filterType)

\* C1 witness: three changes of types added, modified, deleted filtered to
\* 'modified' leave exactly the one modified entry.
C1_Witness ==
  /\ view # NotRendered /\ searchTerm = <<>> /\ filterType = modified
  /\ Len(diffData.changes) = 3
  /\ {diffData.changes[i].change_type : i \in 1..3} = ChangeTypes
  /\ Len(view.filtered) = 1
  /\ view.filtered[1].change_type = modified

\* C2: the filtered list is a sub-list of the change list holding exactly the
\* changes that pass the type filter and whose human_path, path or (present)
\* endpoint_name contains the search text ignoring case.
C2_SearchSelects ==
  view # NotRendered =>
     SelectsExactly(view.filtered, diffData.changes,
                    LAMBDA c : SearchHits(c, searchTerm)
                               /\ (filterType = all \/ c.change_type = filterType))

\* C2 witness: a search text in another case than the data keeps a change by
\* its endpoint_name only and drops others.
C2_Witness ==
  /\ view # NotRendered
  /\ searchTerm = <<"B", "a">>
  /\ \E i \in 1..Len(view.filtered) : view.filtered[i].id = 2
  /\ Len(view.filtered) < Len(diffData.changes)

\* ------------------------------------------------------------------------
\* Client-filtering diff browser: handlers
\* ------------------------------------------------------------------------
MaxNavChanges == 3   \* longest change list the parent passes to the browser
MaxNavSearchLen == 1 \* longest search text typed into the browser

NavPool ==
  { Change(1, added,    <<"a">>,     <<"q">>, <<"E">>),
    Change(2, modified, <<"q">>,     <<"B">>, undefined),
    Change(3, deleted,  <<"A","b">>, <<"q">>, <<"E">>) }

NavDiffData == { [changes |-> cs] : cs \in ChangeListsOver(NavPool, MaxNavChanges) }

\* State after construction (useState initial values); the parent may mount
\* the browser with or without a change-set.
InitClient ==
  /\ mounted = FALSE
  /\ diffData \in NavDiffData \cup {null}
  /\ searchTerm = <<>>
  /\ filterType = all
  /\ groupBy = endpoint
  /\ selectedChange = null
  /\ currentChangeIndex = 0
  /\ view = NotRendered
  /\ lastOp = "init"
  /\ ServerUnused
  /\ HttpIdle
  /\ ImportIdle
  /\ SnapshotsIdle
  /\ GroupsIdle
  /\ CompareIdle
  /\ NotifyIdle

\* Body of the effect on [diffData], given the diffData of that render
ResetOnDiffData(data) ==
  /\ selectedChange' = (IF data # null /\ Len(data.changes) > 0
                        THEN data.changes[1] ELSE null)
  /\ currentChangeIndex' = 0
  /\ searchTerm' = <<>>
  /\ filterType' = all

\* First commit: the effect runs once on mount
MountClient ==
  /\ ~mounted
  /\ mounted' = TRUE
  /\ ResetOnDiffData(diffData)
  /\ lastOp' = "mount"
  /\ UNCHANGED <<diffData, groupBy, view>>
  /\ UNCHANGED <<serverVars, httpVars, importVars, snapshotVars, groupVars, compareVars, noticeVars>>

\* The parent passes another diffData object (a new identity, possibly with
\* the same content): the effect on [diffData] runs again.
ReceiveDiffData(data) ==
  /\ mounted
  /\ diffData' = data
  /\ ResetOnDiffData(data)
  /\ lastOp' = "diffData"
  /\ UNCHANGED <<mounted, groupBy, view>>
  /\ UNCHANGED <<serverVars, httpVars, importVars, snapshotVars, groupVars, compareVars, noticeVars>>

\* The search box, the two selects and the list exist only while a non-empty
\* change-set is shown.
ControlsShown == mounted /\ diffData # null /\ Len(diffData.changes) > 0

setSearchTerm(term) ==
  /\ ControlsShown
  /\ searchTerm' = term
  /\ lastOp' = "search"
  /\ UNCHANGED <<mounted, diffData, filterType, groupBy, selectedChange,
                 currentChangeIndex, view>>
  /\ UNCHANGED <<serverVars, httpVars, importVars, snapshotVars, groupVars, compareVars, noticeVars>>

setFilterType(ftype) ==
  /\ ControlsShown
  /\ filterType' = ftype
  /\ lastOp' = "filter"
  /\ UNCHANGED <<mounted, diffData, searchTerm, groupBy, selectedChange,
                 currentChangeIndex, view>>
  /\ UNCHANGED <<serverVars, httpVars, importVars, snapshotVars, groupVars, compareVars, noticeVars>>

setGroupBy(gb) ==
  /\ ControlsShown
  /\ groupBy' = gb
  /\ lastOp' = "group"
  /\ UNCHANGED <<mounted, diffData, searchTerm, filterType, selectedChange,
                 currentChangeIndex, view>>
  /\ UNCHANGED <<serverVars, httpVars, importVars, snapshotVars, groupVars, compareVars, noticeVars>>

\* Click on a row of the list (rows are those of filteredChanges)
ClickChange(i) ==
  /\ ControlsShown
  /\ i \in 1..Len(filteredChanges)
  /\ selectedChange' = filteredChanges[i]
  /\ currentChangeIndex' = findIndex(filteredChanges, filteredChanges[i])
  /\ lastOp' = "click"
  /\ UNCHANGED <<mounted, diffData, searchTerm, filterType, groupBy, view>>
  /\ UNCHANGED <<serverVars, httpVars, importVars, snapshotVars, groupVars, compareVars, noticeVars>>

\* ("View First Change" is offered only while nothing is selected and
\* filteredChanges is not empty; the effect on [diffData] selects the first
\* change of every non-empty change-set, so the button is never shown in a
\* committed state and has no action here.)

\* navigateChange with wrap-around at both ends
navigateChange_wrapping(direction) ==
  LET currentIndex == findIndex(filteredChanges, selectedChange)
      n == Len(filteredChanges)
  IN  IF n = 0 THEN UNCHANGED <<selectedChange, currentChangeIndex>>
      ELSE LET target == IF direction = "prev" THEN (currentIndex - 1 + n) % n
                         ELSE (currentIndex + 1) % n
           IN  /\ selectedChange' = filteredChanges[target + 1]
               /\ currentChangeIndex' = target

\* navigateChange(direction) of the client-filtering browser
navigateChange(direction) ==
  LET currentIndex == findIndex(filteredChanges, selectedChange) IN
  IF direction = "prev" /\ currentIndex > 0
  THEN /\ selectedChange' = filteredChanges[currentIndex]
       /\ currentChangeIndex' = currentIndex - 1
  ELSE IF direction = "next" /\ currentIndex < Len(filteredChanges) - 1
  THEN /\ selectedChange' = filteredChanges[currentIndex + 2]
       /\ currentChangeIndex' = currentIndex + 1
  ELSE UNCHANGED <<selectedChange, currentChangeIndex>>

\* The arrow buttons of the detail pane: rendered while a change is selected,
\* disabled by the currentChangeIndex state.
ClickNavigate(direction) ==
  /\ ControlsShown
  /\ selectedChange # null
  /\ IF direction = "prev" THEN currentChangeIndex # 0
     ELSE currentChangeIndex # Len(filteredChanges) - 1
  /\ navigateChange(direction)
  /\ lastOp' = direction
  /\ UNCHANGED <<mounted, diffData, searchTerm, filterType, groupBy, view>>
  /\ UNCHANGED <<serverVars, httpVars, importVars, snapshotVars, groupVars, compareVars, noticeVars>>

NextClient ==
  \/ MountClient
  \/ \E data \in NavDiffData \cup {null} : ReceiveDiffData(data)
  \/ \E term \in SearchTermsUpTo(MaxNavSearchLen) : setSearchTerm(term)
  \/ \E ftype \in FilterTypes : setFilterType(ftype)
  \/ \E gb \in GroupBys : setGroupBy(gb)
  \/ \E i \in 1..MaxNavChanges : ClickChange(i)
  \/ \E direction \in {"prev", "next"} : ClickNavigate(direction)

SpecClient == InitClient /\ [][NextClient]_vars

SelectedIsLast ==
  /\ selectedChange # null /\ Len(filteredChanges) > 0
  /\ filteredChanges[Len(filteredChanges)].id = selectedChange.id

SelectedIsFirst ==
  /\ selectedChange # null /\ Len(filteredChanges) > 0
  /\ filteredChanges[1].id = selectedChange.id

\* C4: 'next' invoked while the selected change is the last item of the list,
\* and 'prev' invoked while it is the first, leave the selection and its index
\* unchanged (no wrap-around).
C4_NoMoveAtEnds ==
  [][ ((ClickNavigate("next") /\ SelectedIsLast)
        \/ (ClickNavigate("prev") /\ SelectedIsFirst))
      => UNCHANGED <<selectedChange, currentChangeIndex>> ]_vars

\* C4 witness: 'next' was invoked while the selected change was the last item
\* of a filtered list of several items' worth of data and nothing moved.
C4_Witness ==
  /\ lastOp = "next"
  /\ SelectedIsLast
  /\ Len(diffData.changes) > Len(filteredChanges)
  /\ currentChangeIndex # Len(filteredChanges) - 1

\* C21: an arrow button pressed while the selected change is at index i of
\* the filtered list selects the item at i+1 ('next') or i-1 ('prev') of that
\* list where there is one; the change selected afterwards is in the filtered
\* list, and the index displayed is its position there.
C21_NavigationFollowsFilteredList ==
  [][ \A direction \in {"prev", "next"} :
        LET i == findIndex(filteredChanges, selectedChange)
            target == IF direction = "prev" THEN i - 1 ELSE i + 1
        IN  (ClickNavigate(direction) /\ i >= 0) =>
              /\ (target >= 0 /\ target < Len(filteredChanges))
                    => selectedChange' = filteredChanges[target + 1]
              /\ findIndex(filteredChanges', selectedChange') >= 0
              /\ currentChangeIndex' = findIndex(filteredChanges', selectedChange')
    ]_vars

\* C24: while a change-set is loaded and a change is selected, the selected
\* change is an element of the list navigation works on (the filtered list).
C24_SelectionInNavigatedList ==
  (mounted /\ diffData # null /\ selectedChange # null)
     => findIndex(filteredChanges, selectedChange) >= 0

AddedLabel == <<"A","d","d","e","d">>
DeletedLabel == <<"D","e","l","e","t","e","d">>
ModifiedLabel == <<"M","o","d","i","f","i","e","d">>

TypeLabel(ctype) ==
  CASE ctype = added -> AddedLabel
    [] ctype = deleted -> DeletedLabel
    [] ctype = modified -> ModifiedLabel

\* Places (bucket, position) at which change c occurs in the group entries
PlacesOf(entries, c) ==
  { <<i, k>> \in (1..Len(entries)) \X (1..MaxChanges + 1) :
      k <= Len(entries[i].changes) /\ entries[i].changes[k] = c }

\* C3: for every group-by mode the buckets partition the filtered list (each
\* filtered change in exactly one bucket once, nothing else in a bucket, no
\* bucket empty); changes without endpoint_name share the one 'Collection
\* Level' bucket; by type, the key is the capitalized change type.
C3_GroupsPartition ==
  (view # NotRendered /\ view.listed) =>
    /\ ~view.groups.threw
    /\ LET e == view.groups.entries
           f == view.filtered
       IN /\ \A n \in 1..Len(f) : Cardinality(PlacesOf(e, f[n])) = 1
          /\ \A i \in 1..Len(e) : \A k \in 1..Len(e[i].changes) :
                \E n \in 1..Len(f) : f[n] = e[i].changes[k]
          /\ \A i \in 1..Len(e) : e[i].changes # <<>>
          /\ \A i, j \in 1..Len(e) : i # j => e[i].key # e[j].key
          /\ groupBy = endpoint =>
                \A i \in 1..Len(e) : \A k \in 1..Len(e[i].changes) :
                   e[i].changes[k].endpoint_name = undefined
                      => e[i].key = CollectionLevelKey
          /\ groupBy = type =>
                \A i \in 1..Len(e) : \A k \in 1..Len(e[i].changes) :
                   e[i].key = TypeLabel(e[i].changes[k].change_type)

\* ------------------------------------------------------------------------
\* Server-paginated diff browser (components/DisplaySnapshotDiff.tsx)
\* ------------------------------------------------------------------------
MaxSnapshotId == 2      \* snapshot ids the parent may pass: 1..MaxSnapshotId
MaxServerChanges == 2   \* longest page of changes the backend returns
MaxServerSearchLen == 1 \* longest search text typed
MaxTotalPages == 2      \* largest total_pages the backend reports
MaxInflight == 2        \* diff requests outstanding at the same time

pageSize == 50

NoSnapshotsMessage == "No snapshots available for this collection"
FetchFailedMessage == "Failed to fetch diff data"

ServerPool ==
  { Change(1, added,    <<"a">>, <<"q">>, <<"E">>),
    Change(2, modified, <<"q">>, <<"a">>, undefined) }

NoPagination == [absent |-> TRUE]

\* Bodies of a successful diff response
DiffResponses ==
  { [changes |-> cs, pagination |-> pg] :
      cs \in ChangeListsOver(ServerPool, MaxServerChanges),
      pg \in {NoPagination,
              [total_pages |-> 1, has_more |-> FALSE],
              [total_pages |-> MaxTotalPages, has_more |-> TRUE]} }

\* The values the user picks in the two selects (the browser only forwards
\* them, so two of each exercise every path)
ServerFilterChoices == {all, modified}
ServerGroupChoices == {endpoint, none}

ServerSearchTerms == UNION { [1..k -> {"a"}] : k \in 0..MaxServerSearchLen }

\* The component's state and props as one value
ServerState ==
  [snapshotId |-> snapshotId, diffData |-> diffData, loading |-> loading,
   error |-> error, searchTerm |-> searchTerm,
   debounced |-> debouncedSearchTerm, timer |-> debounceTimer,
   filterType |-> filterType, groupBy |-> groupBy, page |-> page,
   selectedChange |-> selectedChange, inflight |-> inflight,
   shownLatest |-> shownLatest, arrived |-> lastArrived,
   failed |-> lastFailed]

\* params?.<name> is defined: the object has a property of that name
HasProp(params, name) == name \in DOMAIN params

\* The URLSearchParams object built by fetchDiffData: its entries are reached
\* through get(), it has no data property of its own besides them
URLSearchParams(entries) == [entries |-> entries]

\* changesService.getSnapshotDiff: the query string is built from the
\* properties pageSize, page, filterType and sortOrder of params, each
\* appended when truthy
getSnapshotDiffQuery(params) ==
  LET names == <<"pageSize", "page", "filterType", "sortOrder">>
      RECURSIVE build(_)
      build(i) ==
        IF i > Len(names) THEN <<>>
        ELSE (IF HasProp(params, names[i])
              THEN <<[name |-> names[i], value |-> params[names[i]]]>>
              ELSE <<>>) \o build(i + 1)
  IN  build(1)

\* The request fetchDiffData issues from the values of render r, as it goes
\* out: GET /collections/{collectionId}/changes/diff/{snapshotId}?{query}.
\* latest (history) marks the request issued last.
DiffRequest(r) ==
  [snapshotId |-> r.snapshotId,
   query |-> getSnapshotDiffQuery(URLSearchParams(
               [search |-> r.debounced, filter_type |-> r.filterType,
                group_by |-> r.groupBy, page |-> r.page,
                page_size |-> pageSize])),
   latest |-> TRUE]

Superseded(reqs) == [i \in 1..Len(reqs) |-> [reqs[i] EXCEPT !.latest = FALSE]]

fetchDiffData_keepsError(r, st) ==
  IF r.snapshotId = 0
  THEN [st EXCEPT !.loading = FALSE, !.error = NoSnapshotsMessage,
                  !.failed = NoRequest]
  ELSE [st EXCEPT !.loading = TRUE,
                  !.inflight = Append(Superseded(@), DiffRequest(r)),
                  !.shownLatest = FALSE]

\* fetchDiffData as created by render r, applied to the pending state st, up
\* to its await (or to its end when there is no snapshot id)
fetchDiffData(r, st) ==
  IF r.snapshotId = 0
  THEN [st EXCEPT !.loading = FALSE, !.error = NoSnapshotsMessage,
                  !.failed = NoRequest]
  ELSE [st EXCEPT !.loading = TRUE, !.error = NoError,
                  !.inflight = Append(Superseded(@), DiffRequest(r)),
                  !.shownLatest = FALSE]

FetchDeps(r) == <<r.snapshotId, r.debounced, r.filterType, r.groupBy, r.page>>

CriteriaDeps(r) == <<r.debounced, r.filterType, r.groupBy>>

\* useEffect(..., [diffData, selectedChange])
SelectFirstEffect(prev, cur, st, first, dataChanged) ==
  IF /\ (first \/ dataChanged \/ cur.selectedChange # prev.selectedChange)
     /\ cur.diffData # null /\ Len(cur.diffData.changes) > 0
     /\ cur.selectedChange = null
  THEN [st EXCEPT !.selectedChange = cur.diffData.changes[1]]
  ELSE st

\* useEffect(..., [debouncedSearchTerm, filterType, groupBy])
ResetEffect(prev, cur, st, first) ==
  IF first \/ CriteriaDeps(cur) # CriteriaDeps(prev)
  THEN [st EXCEPT !.selectedChange = null, !.page = 1]
  ELSE st

\* The effects of one commit, in hook order: those whose dependencies differ
\* between the previous render (prev) and this one (cur) run with the values
\* of cur; their state updates are batched into the next render.
RunEffects(prev, cur, first, dataChanged) ==
  LET s1 == IF first \/ cur.searchTerm # prev.searchTerm
            THEN [cur EXCEPT !.timer = TRUE] ELSE cur
      s2 == IF first \/ FetchDeps(cur) # FetchDeps(prev)
            THEN fetchDiffData(cur, s1) ELSE s1
      s3 == SelectFirstEffect(prev, cur, s2, first, dataChanged)
  IN  ResetEffect(prev, cur, s3, first)

\* Re-render until a commit changes nothing
RECURSIVE Settle(_, _, _, _)
Settle(prev, cur, first, dataChanged) ==
  LET out == RunEffects(prev, cur, first, dataChanged)
  IN  IF out = cur THEN cur ELSE Settle(cur, out, FALSE, FALSE)

Commit(st) ==
  /\ Len(st.inflight) <= MaxInflight
  /\ snapshotId' = st.snapshotId
  /\ diffData' = st.diffData
  /\ loading' = st.loading
  /\ error' = st.error
  /\ searchTerm' = st.searchTerm
  /\ debouncedSearchTerm' = st.debounced
  /\ debounceTimer' = st.timer
  /\ filterType' = st.filterType
  /\ groupBy' = st.groupBy
  /\ page' = st.page
  /\ selectedChange' = st.selectedChange
  /\ inflight' = st.inflight
  /\ shownLatest' = st.shownLatest
  /\ lastArrived' = st.arrived
  /\ lastFailed' = IF st.error = NoError THEN NoRequest ELSE st.failed

\* A handler changed the state to cur: render, run effects, settle
Update(cur, dataChanged) ==
  Commit(Settle(ServerState, cur, FALSE, dataChanged))

InitServer ==
  /\ mounted = FALSE
  /\ snapshotId \in 0..MaxSnapshotId
  /\ diffData = null
  /\ loading = FALSE
  /\ error = NoError
  /\ searchTerm = <<>>
  /\ debouncedSearchTerm = <<>>
  /\ debounceTimer = FALSE
  /\ filterType = all
  /\ groupBy = endpoint
  /\ page = 1
  /\ selectedChange = null
  /\ inflight = <<>>
  /\ shownLatest = FALSE
  /\ lastArrived = null
  /\ lastFailed = NoRequest
  /\ lastCause = "none"
  /\ currentChangeIndex = 0
  /\ view = NotRendered
  /\ lastOp = "init"
  /\ HttpIdle
  /\ ImportIdle
  /\ SnapshotsIdle
  /\ GroupsIdle
  /\ CompareIdle
  /\ NotifyIdle

MountServer ==
  /\ ~mounted
  /\ mounted' = TRUE
  /\ Commit(Settle(ServerState, ServerState, TRUE, FALSE))
  /\ lastCause' = "mount"
  /\ UNCHANGED <<lastOp, currentChangeIndex, view, httpVars, importVars, snapshotVars, groupVars, compareVars, noticeVars>>

\* The parent selects another snapshot (ChangesDashboard passes
\* selectedSnapshotId as the snapshotId prop without remounting)
SnapshotChange(sid) ==
  /\ mounted
  /\ sid # snapshotId
  /\ Update([ServerState EXCEPT !.snapshotId = sid], FALSE)
  /\ lastCause' = IF inflight = <<>> THEN "snapshot" ELSE "overlap"
  /\ UNCHANGED <<mounted, lastOp, currentChangeIndex, view, httpVars, importVars, snapshotVars, groupVars, compareVars, noticeVars>>

LoadingView == loading /\ diffData = null

ErrorView == ~LoadingView /\ error # NoError

\* The controls, the list and the detail pane are rendered
S_ControlsShown ==
  /\ mounted /\ ~LoadingView /\ error = NoError
  /\ diffData # null /\ Len(diffData.changes) > 0

S_setSearchTerm(term) ==
  /\ S_ControlsShown
  /\ term # searchTerm
  /\ Update([ServerState EXCEPT !.searchTerm = term], FALSE)
  /\ UNCHANGED <<mounted, lastCause, lastOp, currentChangeIndex, view, httpVars, importVars, snapshotVars, groupVars, compareVars, noticeVars>>

\* The timeout of useDebounce fires: setDebouncedValue(value)
DebounceFires ==
  /\ mounted
  /\ debounceTimer
  /\ Update([ServerState EXCEPT !.debounced = searchTerm, !.timer = FALSE], FALSE)
  /\ lastCause' = IF debouncedSearchTerm = searchTerm THEN lastCause
                  ELSE IF inflight = <<>> THEN "criteria" ELSE "overlap"
  /\ UNCHANGED <<mounted, lastOp, currentChangeIndex, view, httpVars, importVars, snapshotVars, groupVars, compareVars, noticeVars>>

S_setFilterType(ftype) ==
  /\ S_ControlsShown
  /\ ftype # filterType
  /\ Update([ServerState EXCEPT !.filterType = ftype], FALSE)
  /\ lastCause' = IF inflight = <<>> THEN "criteria" ELSE "overlap"
  /\ UNCHANGED <<mounted, lastOp, currentChangeIndex, view, httpVars, importVars, snapshotVars, groupVars, compareVars, noticeVars>>

S_setGroupBy(gb) ==
  /\ S_ControlsShown
  /\ gb # groupBy
  /\ Update([ServerState EXCEPT !.groupBy = gb], FALSE)
  /\ lastCause' = IF inflight = <<>> THEN "criteria" ELSE "overlap"
  /\ UNCHANGED <<mounted, lastOp, currentChangeIndex, view, httpVars, importVars, snapshotVars, groupVars, compareVars, noticeVars>>

\* Click on a row: setSelectedChange(change)
S_ClickChange(i) ==
  /\ S_ControlsShown
  /\ i \in 1..Len(diffData.changes)
  /\ Update([ServerState EXCEPT !.selectedChange = diffData.changes[i]], FALSE)
  /\ lastCause' = "select"
  /\ UNCHANGED <<mounted, lastOp, currentChangeIndex, view, httpVars, importVars, snapshotVars, groupVars, compareVars, noticeVars>>

\* navigateChange(direction) of the server-paginated browser
S_navigateChange(st, direction) ==
  IF st.diffData = null \/ st.selectedChange = null THEN st
  ELSE LET currentIndex == findIndex(st.diffData.changes, st.selectedChange) IN
       IF direction = "prev" /\ currentIndex > 0
       THEN [st EXCEPT !.selectedChange = st.diffData.changes[currentIndex]]
       ELSE IF direction = "next" /\ currentIndex < Len(st.diffData.changes) - 1
       THEN [st EXCEPT !.selectedChange = st.diffData.changes[currentIndex + 2]]
       ELSE st

\* The arrow buttons: rendered while a change is selected, disabled at the
\* ends by the index computed in the render
S_ClickNavigate(direction) ==
  LET index == IF selectedChange # null
               THEN findIndex(diffData.changes, selectedChange) ELSE -1
  IN  /\ S_ControlsShown
      /\ selectedChange # null
      /\ IF direction = "prev" THEN index # 0
         ELSE index # Len(diffData.changes) - 1
      /\ Update(S_navigateChange(ServerState, direction), FALSE)
          /\ lastCause' = "select"
      /\ UNCHANGED <<mounted, lastOp, currentChangeIndex, view, httpVars, importVars, snapshotVars, groupVars, compareVars, noticeVars>>

Max(a, b) == IF a >= b THEN a ELSE b
Min(a, b) == IF a <= b THEN a ELSE b

\* The Previous / Next page buttons
ClickPage(direction) ==
  /\ S_ControlsShown
  /\ diffData.pagination # NoPagination
  /\ diffData.pagination.total_pages > 1
  /\ IF direction = "prev" THEN page # 1 ELSE diffData.pagination.has_more
  /\ Update([ServerState EXCEPT !.page =
               IF direction = "prev" THEN Max(1, page - 1)
               ELSE Min(diffData.pagination.total_pages, page + 1)], FALSE)
  /\ lastCause' = "page"
  /\ UNCHANGED <<mounted, lastOp, currentChangeIndex, view, httpVars, importVars, snapshotVars, groupVars, compareVars, noticeVars>>

\* The Retry button of the error view: onClick={fetchDiffData}
Retry ==
  /\ mounted
  /\ ErrorView
  /\ Update(fetchDiffData(ServerState, ServerState), FALSE)
  /\ lastCause' = "retry"
  /\ UNCHANGED <<mounted, lastOp, currentChangeIndex, view, httpVars, importVars, snapshotVars, groupVars, compareVars, noticeVars>>

RemoveAt(seq, i) == SubSeq(seq, 1, i - 1) \o SubSeq(seq, i + 1, Len(seq))

setDiffData_unlessSuperseded(st, q, response) ==
  IF q.latest THEN [st EXCEPT !.diffData = response, !.shownLatest = TRUE]
  ELSE st

\* setDiffData(response) in the continuation of the fetchDiffData call that
\* issued request q: nothing compares q with the request issued last
setDiffData(st, q, response) ==
  [st EXCEPT !.diffData = response, !.shownLatest = q.latest]

\* A diff request is answered with a body: setDiffData, then setLoading(false)
DiffResponse(i, response) ==
  /\ mounted
  /\ i \in 1..Len(inflight)
  /\ Update(setDiffData([ServerState EXCEPT !.inflight = RemoveAt(@, i),
                                            !.loading = FALSE,
                                            !.arrived = response],
                        inflight[i], response),
            TRUE)
  /\ UNCHANGED <<mounted, lastCause, lastOp, currentChangeIndex, view, httpVars, importVars, snapshotVars, groupVars, compareVars, noticeVars>>

\* A diff request fails (rejected by the client, or an empty body): setError,
\* then setLoading(false)
DiffFailure(i) ==
  /\ mounted
  /\ i \in 1..Len(inflight)
  /\ Update([ServerState EXCEPT !.inflight = RemoveAt(@, i),
                                !.error = FetchFailedMessage,
                                !.loading = FALSE,
                                !.failed = inflight[i]],
            FALSE)
  /\ UNCHANGED <<mounted, lastCause, lastOp, currentChangeIndex, view, httpVars, importVars, snapshotVars, groupVars, compareVars, noticeVars>>

NextServer ==
  \/ MountServer
  \/ \E sid \in 0..MaxSnapshotId : SnapshotChange(sid)
  \/ \E term \in ServerSearchTerms : S_setSearchTerm(term)
  \/ DebounceFires
  \/ \E ftype \in ServerFilterChoices : S_setFilterType(ftype)
  \/ \E gb \in ServerGroupChoices : S_setGroupBy(gb)
  \/ \E i \in 1..MaxServerChanges : S_ClickChange(i)
  \/ \E direction \in {"prev", "next"} : S_ClickNavigate(direction)
  \/ \E direction \in {"prev", "next"} : ClickPage(direction)
  \/ Retry
  \/ \E i \in 1..MaxInflight : \E response \in DiffResponses : DiffResponse(i, response)
  \/ \E i \in 1..MaxInflight : DiffFailure(i)

SpecServer == InitServer /\ [][NextServer]_vars

\* The view has settled on the response to the request issued last
SettledOnLatest ==
  /\ mounted /\ inflight = <<>> /\ ~loading /\ error = NoError
  /\ diffData # null /\ shownLatest

\* C5: once the snapshot pair has changed and the change-set of the new pair
\* is loaded, selectedChange is that set's first element, or null if it is
\* empty, whatever was selected before.  (Stated for a change made while no
\* other request was outstanding, so that no late response is involved.)
C5_SnapshotChangeResetsSelection ==
  (lastCause = "snapshot" /\ SettledOnLatest)
     => selectedChange = FirstOrNull(diffData.changes)

\* C9: after a change of only the search text, the type filter or the
\* group-by, once the list for the new criteria is shown the page is 1 and the
\* selected change is the first item of that list (null if it is empty).
\* (Stated for a change made while no other request was outstanding.)
C9_CriteriaChangeResetsSelection ==
  (lastCause = "criteria" /\ SettledOnLatest)
     => (page = 1 /\ selectedChange = FirstOrNull(diffData.changes))

\* The query of request q has the parameter name with the given value
Carries(q, name, value) ==
  \E k \in 1..Len(q.query) : q.query[k] = [name |-> name, value |-> value]

\* C17: the diff request issued last carries the current debounced search
\* text, type filter, group-by, page and page size as query parameters.
C17_RequestCarriesCriteria ==
  \A i \in 1..Len(inflight) :
     inflight[i].latest =>
       /\ Carries(inflight[i], "search", debouncedSearchTerm)
       /\ Carries(inflight[i], "filter_type", filterType)
       /\ Carries(inflight[i], "group_by", groupBy)
       /\ Carries(inflight[i], "page", page)
       /\ Carries(inflight[i], "page_size", pageSize)

\* C18: the change-set held is the body of the diff response that arrived
\* last, whichever request it answers: responses are applied in their order
\* of arrival and none is discarded because a later request has been issued.
C18_ResponsesAppliedInArrivalOrder == diffData = lastArrived

\* C18 witness: criteria changed while a request was outstanding, both
\* requests have been answered, and the change-set shown is the answer to the
\* superseded request.
C18_Witness ==
  /\ mounted /\ lastCause = "overlap"
  /\ inflight = <<>> /\ ~loading /\ error = NoError
  /\ diffData # null /\ ~shownLatest

\* The requests in flight that this step settles, the others staying in flight
Settled == { i \in 1..Len(inflight) : inflight' = RemoveAt(inflight, i) }

\* A diff fetch fails: the error state is entered with loading false, the
\* change-set held is kept
FailureEntersErrorState ==
  \A i \in Settled :
     (lastFailed' = inflight[i] /\ DiffFailure(i)) =>
       /\ ~loading' /\ error' # NoError /\ ErrorView'
       /\ diffData' = diffData

\* This step is a press of the Retry button
RetryPressed == lastCause' = "retry" /\ Len(inflight') >= Len(inflight) /\ Retry

\* Without a snapshot id a fetch ends in the error state and issues nothing
NoSnapshotIdNoRequest ==
  (mounted' /\ snapshotId' = 0 /\ (~mounted \/ snapshotId # 0 \/ RetryPressed)) =>
     /\ error' = NoSnapshotsMessage /\ ~loading'
     /\ inflight' = inflight

\* A response that arrives (with a body other than the one before it) is shown
\* and leaves the error as the last fetch start or failure left it
ResponseKeepsErrorCleared ==
  (Settled # {} /\ lastArrived' # lastArrived) =>
     /\ diffData' = lastArrived' /\ ~loading'
     /\ error' = error

\* The request Retry adds to those in flight
Retried == inflight'[Len(inflight')]

RetryIssues(snapshot, query) ==
  /\ Len(inflight') = Len(inflight) + 1
  /\ Retried.snapshotId = snapshot /\ Retried.query = query
  /\ error' = NoError /\ loading'

Issued == Len(inflight') - Len(inflight)

\* The timeout of useDebounce fires in this step
DebounceElapsed == debounceTimer /\ ~debounceTimer'

\* C20: a change of the search text issues no fetch and leaves the debounced
\* text alone, (re)starting the timer; when the timer fires the debounced text
\* becomes the latest input and at most one fetch is issued for it, none if it
\* equals the previous debounced text; a change of the type filter, the
\* group-by or the page by its buttons issues a fetch in the same step.
C20_SearchIsDebounced ==
  [][ /\ (searchTerm' # searchTerm) =>
            /\ Issued = 0
            /\ debouncedSearchTerm' = debouncedSearchTerm
            /\ debounceTimer'
      /\ DebounceElapsed =>
            /\ debouncedSearchTerm' = searchTerm
            /\ Issued <= 1
            /\ (debouncedSearchTerm = searchTerm => Issued = 0)
      /\ (filterType' # filterType \/ groupBy' # groupBy) => Issued >= 1
      /\ (page' # page /\ \E direction \in {"prev", "next"} : ClickPage(direction))
            => Issued >= 1 ]_vars

\* C26: loading is true exactly while at least one diff fetch is outstanding.
C26_LoadingIffOutstanding ==
  mounted => (loading <=> inflight # <<>>)

\* C27: page is at least 1, and while a response with pagination info is
\* loaded and no fetch is outstanding, page is at most its total_pages.
C27_PageWithinRange ==
  /\ page >= 1
  /\ (mounted /\ inflight = <<>> /\ diffData # null
        /\ diffData.pagination # NoPagination)
       => page <= diffData.pagination.total_pages

\* ------------------------------------------------------------------------
\* Session holder (AuthProvider) and HTTP client (the axios instance `api`)
\* ------------------------------------------------------------------------
MaxRequests == 1     \* requests outstanding at the same time
MaxAttempts == 3     \* times one request is put on the wire

Tokens == {"t1", "t2"}

otherThanHttp == <<browserVars, serverVars, importVars, snapshotVars, groupVars, compareVars, noticeVars>>

\* --- parseInt(string) and the `||` default of the 429 branch
NaN == [nan |-> TRUE, value |-> 0]

Number(n) == [nan |-> FALSE, value |-> n]

Digits == <<"0","1","2","3","4","5","6","7","8","9">>

IsDigit(c) == \E d \in 1..10 : Digits[d] = c

DigitValue(c) == (CHOOSE d \in 1..10 : Digits[d] = c) - 1

\* the value of the longest run of digits of str that starts at position i
RECURSIVE parseDigits(_, _, _)
parseDigits(str, i, acc) ==
  IF i > Len(str) \/ ~IsDigit(str[i]) THEN acc
  ELSE parseDigits(str, i + 1, acc * 10 + DigitValue(str[i]))

\* parseInt(v): undefined is converted to the string "undefined", which has no
\* leading digits; an optional sign, then digits, anything after is ignored
parseInt(v) ==
  IF v = undefined \/ v = <<>> THEN NaN
  ELSE LET signed == v[1] \in {"-", "+"}
           start == IF signed THEN 2 ELSE 1
       IN  IF start > Len(v) \/ ~IsDigit(v[start]) THEN NaN
           ELSE IF v[1] = "-" THEN Number(0 - parseDigits(v, start, 0))
           ELSE Number(parseDigits(v, start, 0))

\* x || d for a number x: NaN and 0 are falsy
OrDefault(x, d) == IF x.nan \/ x.value = 0 THEN d ELSE x.value

defaultRetryAfter == 60

msPerSecond == 1000

\* the delay passed to setTimeout in the 429 branch
retryDelay(retryAfter) ==
  OrDefault(parseInt(retryAfter), defaultRetryAfter) * msPerSecond

\* values of the retry-after response header: absent, "2", "0", "x"
RetryAfterHeaders == {undefined, <<"2">>, <<"0">>, <<"x">>}

\* --- requests
\* A request of the instance: which call issued it, how many times it has
\* been put on the wire, and whether the 429 branch is waiting to re-issue it.
\* (The request interceptor adds the Authorization header from the stored
\* token each time the request is sent; it changes no state of the client.)
\* kind is the endpoint ("signup": POST /signup, "login": POST /auth/login,
\* "api": any other); caller is the function of AuthProvider whose promise
\* the outcome settles; credentials are the (email, password) of the body.
AuthRequest(kind, caller, credentials, attempts, waiting, delay) ==
  [kind |-> kind, caller |-> caller, credentials |-> credentials,
   attempts |-> attempts, waiting |-> waiting, delay |-> delay]

NoCredentials == "none"

Credentials == {"u1", "u2"}

Request(kind, attempts, waiting, delay) ==
  AuthRequest(kind, kind, NoCredentials, attempts, waiting, delay)

Outstanding == BagToSet(requests)

OnTheWire(r) == r \in Outstanding /\ ~r.waiting

Without(r) == requests (-) SetToBag({r})

Result(r, outcome, status) ==
  [kind |-> r.kind, caller |-> r.caller, outcome |-> outcome, status |-> status]

InitAuth ==
  /\ token \in Tokens \cup {NoToken}
  /\ isAuthenticated = FALSE
  /\ isLoading = TRUE
  /\ navigation = "none"
  /\ requests = EmptyBag
  /\ lastResult = NoResult
  /\ BrowserUnused
  /\ ServerUnused
  /\ ImportIdle
  /\ SnapshotsIdle
  /\ GroupsIdle
  /\ CompareIdle
  /\ NotifyIdle

\* A mount effect that asks the backend whether the token is still good
AuthMount_validating ==
  /\ isLoading
  /\ isAuthenticated' = (token # NoToken)
  /\ isLoading' = FALSE
  /\ requests' = requests (+) SetToBag({Request("api", 1, FALSE, 0)})
  /\ UNCHANGED <<token, navigation, lastResult>>
  /\ UNCHANGED otherThanHttp

\* AuthProvider's mount effect
AuthMount ==
  /\ isLoading
  /\ isAuthenticated' = (token # NoToken)
  /\ isLoading' = FALSE
  /\ UNCHANGED <<token, navigation, requests, lastResult>>
  /\ UNCHANGED otherThanHttp

\* The browser loads the document anew: the navigation started by an
\* assignment to window.location.href completes, or the user reloads.  The
\* React state starts over, the requests of the old document are dropped,
\* localStorage stays (and lastResult, which is history).
PageLoad ==
  /\ isAuthenticated' = FALSE
  /\ isLoading' = TRUE
  /\ navigation' = "none"
  /\ requests' = EmptyBag
  /\ UNCHANGED <<token, lastResult>>
  /\ UNCHANGED otherThanHttp

\* AuthProvider.login up to its await: authService.login posts to /auth/login.
\* The login form is rendered once the mount effect has run.
CallLogin(credentials) ==
  /\ ~isLoading
  /\ BagCardinality(requests) < MaxRequests
  /\ requests' = requests (+)
        SetToBag({AuthRequest("login", "login", credentials, 1, FALSE, 0)})
  /\ UNCHANGED <<token, isAuthenticated, isLoading, navigation, lastResult>>
  /\ UNCHANGED otherThanHttp

\* Any other call through the instance (collections, snapshots, api keys...)
CallApi ==
  /\ BagCardinality(requests) < MaxRequests
  /\ requests' = requests (+) SetToBag({Request("api", 1, FALSE, 0)})
  /\ UNCHANGED <<token, isAuthenticated, isLoading, navigation, lastResult>>
  /\ UNCHANGED otherThanHttp

\* AuthProvider.signup up to its first await: authService.signup posts to
\* /signup
CallSignup(credentials) ==
  /\ ~isLoading
  /\ BagCardinality(requests) < MaxRequests
  /\ requests' = requests (+)
        SetToBag({AuthRequest("signup", "signup", credentials, 1, FALSE, 0)})
  /\ UNCHANGED <<token, isAuthenticated, isLoading, navigation, lastResult>>
  /\ UNCHANGED otherThanHttp

\* AuthProvider.signup after authService.signup resolved, with a login
\* for another account
loginAfterSignup_otherCredentials(r) ==
  AuthRequest("login", "signup",
              CHOOSE c \in Credentials : c # r.credentials, 1, FALSE, 0)

\* AuthProvider.signup after authService.signup resolved:
\* await login(email, password)
loginAfterSignup(r) ==
  AuthRequest("login", "signup", r.credentials, 1, FALSE, 0)

\* authService.logout, the token is left in place
authService_logout_keepsToken == UNCHANGED token

\* authService.logout: localStorage.removeItem
authService_logout == token' = NoToken

LoggedOut ==
  [kind |-> "logout", caller |-> "logout", outcome |-> "returned", status |-> 0]

\* AuthProvider.logout.  It is a value of the context, so any consumer can
\* call it once the provider has mounted; it returns synchronously.
logout ==
  /\ ~isLoading
  /\ authService_logout
  /\ isAuthenticated' = FALSE
  /\ lastResult' = LoggedOut
  /\ UNCHANGED <<isLoading, navigation, requests>>
  /\ UNCHANGED otherThanHttp

\* authService.login after the response: the token is not stored
authService_login_notStored(tok) == UNCHANGED token

\* authService.login after the response: localStorage.setItem
authService_login(tok) == token' = tok

\* A 2xx response.  For a login, authService.login stores the token of the
\* body and AuthProvider.login sets the flag.  For a signup, AuthProvider.signup
\* goes on to login, whose request is sent in the same turn; the caller of
\* signup has no outcome yet.
Respond2xx(r, tok) ==
  /\ OnTheWire(r)
  /\ IF r.kind = "signup"
     THEN /\ requests' = Without(r) (+) SetToBag({loginAfterSignup(r)})
          /\ UNCHANGED lastResult
     ELSE /\ requests' = Without(r)
          /\ lastResult' = Result(r, "fulfilled", 200)
  /\ IF r.kind = "login"
     THEN /\ authService_login(tok)
          /\ isAuthenticated' = TRUE
     ELSE UNCHANGED <<token, isAuthenticated>>
  /\ UNCHANGED <<isLoading, navigation>>
  /\ UNCHANGED otherThanHttp

\* Response interceptor, status 401.  The rejection goes through
\* authService.login and AuthProvider.login untouched (catch and rethrow).
Respond401(r) ==
  /\ OnTheWire(r)
  /\ token' = NoToken
  /\ navigation' = "pending"
  /\ requests' = Without(r)
  /\ lastResult' = Result(r, "rejected", 401)
  /\ UNCHANGED <<isAuthenticated, isLoading>>
  /\ UNCHANGED otherThanHttp

\* Response interceptor, status 429, up to its await: the timer is set
Respond429(r, retryAfter) ==
  /\ OnTheWire(r)
  /\ r.attempts < MaxAttempts
  /\ requests' = Without(r) (+)
        SetToBag({[r EXCEPT !.waiting = TRUE, !.delay = retryDelay(retryAfter)]})
  /\ UNCHANGED <<token, isAuthenticated, isLoading, navigation, lastResult>>
  /\ UNCHANGED otherThanHttp

\* Response interceptor, status 429, after the await: api(originalRequest)
RetryTimer(r) ==
  /\ r \in Outstanding
  /\ r.waiting
  /\ requests' = Without(r) (+)
        SetToBag({[r EXCEPT !.attempts = @ + 1, !.waiting = FALSE, !.delay = 0]})
  /\ UNCHANGED <<token, isAuthenticated, isLoading, navigation, lastResult>>
  /\ UNCHANGED otherThanHttp

\* Response interceptor, no response (status 0 here) or any other error status
RespondError(r, status) ==
  /\ OnTheWire(r)
  /\ requests' = Without(r)
  /\ lastResult' = Result(r, "rejected", status)
  /\ UNCHANGED <<token, isAuthenticated, isLoading, navigation>>
  /\ UNCHANGED otherThanHttp

\* which call issues which request
Callers ==
  { [kind |-> "api", caller |-> "api", credentials |-> NoCredentials] }
  \cup { [kind |-> k[1], caller |-> k[2], credentials |-> c] :
           k \in {<<"login", "login">>, <<"signup", "signup">>,
                  <<"login", "signup">>},
           c \in Credentials }

RequestsUpTo(n) ==
  { AuthRequest(k.kind, k.caller, k.credentials, attempts, waiting, delay) :
      k \in Callers, attempts \in 1..n, waiting \in BOOLEAN,
      delay \in {0} \cup { retryDelay(h) : h \in RetryAfterHeaders } }

NextAuth ==
  \/ AuthMount
  \/ PageLoad
  \/ \E credentials \in Credentials : CallLogin(credentials)
  \/ \E credentials \in Credentials : CallSignup(credentials)
  \/ CallApi
  \/ logout
  \/ \E r \in RequestsUpTo(MaxAttempts) : \E tok \in Tokens : Respond2xx(r, tok)
  \/ \E r \in RequestsUpTo(MaxAttempts) : Respond401(r)
  \/ \E r \in RequestsUpTo(MaxAttempts) : \E h \in RetryAfterHeaders : Respond429(r, h)
  \/ \E r \in RequestsUpTo(MaxAttempts) : RetryTimer(r)
  \/ \E r \in RequestsUpTo(MaxAttempts) : \E status \in {0, 500} : RespondError(r, status)

SpecAuth == InitAuth /\ [][NextAuth]_vars

\* C7: a 401 response to any request, from any session state, removes the
\* persisted token, triggers the redirect to '/', rejects the request towards
\* its caller, and leaves the session unauthenticated.
C7_UnauthorizedEndsSession ==
  [][ \A r \in Outstanding :
        Respond401(r) =>
          /\ token' = NoToken
          /\ navigation' = "pending"
          /\ lastResult' = Result(r, "rejected", 401)
          /\ isAuthenticated' = FALSE ]_vars

\* C8: a request that receives 429 is re-issued once; no request is put on
\* the wire more than twice.
C8_AtMostTwoAttempts ==
  \A r \in Outstanding : r.attempts <= 2

\* C10: when the auth call of login succeeds, the token of the response is
\* persisted and the session is authenticated; when it fails, the rejection
\* reaches the caller, the request is not issued again, no token is stored
\* and the authenticated flag keeps its value.
C10_LoginOutcome ==
  [][ \A r \in Outstanding :
        r.kind = "login" =>
          /\ \A tok \in Tokens :
               Respond2xx(r, tok) =>
                 /\ token' = tok
                 /\ isAuthenticated' = TRUE
                 /\ lastResult' = Result(r, "fulfilled", 200)
          /\ (Respond401(r) \/ \E status \in {0, 500} : RespondError(r, status)) =>
                 /\ lastResult'.kind = "login"
                 /\ lastResult'.outcome = "rejected"
                 /\ requests' = Without(r)
                 /\ token' \in {token, NoToken}
                 /\ isAuthenticated' = isAuthenticated ]_vars

\* C10 witness: a login was answered with success; the token is stored and
\* the session is authenticated.
C10_Witness ==
  /\ lastResult = [kind |-> "login", caller |-> "login",
                   outcome |-> "fulfilled", status |-> 200]
  /\ token \in Tokens
  /\ isAuthenticated

FailureOf(r) ==
  Respond401(r) \/ \E status \in {0, 500} : RespondError(r, status)

\* C11: signup issues the signup call first and the login call, with the same
\* credentials, only when the signup call has succeeded; when signup fails no
\* login is issued; when either step fails the rejection reaches the caller of
\* signup and the session is not marked authenticated.
C11_SignupThenLogin ==
  [][ /\ \A r \in Outstanding :
           /\ r.kind = "signup" =>
                /\ \A tok \in Tokens :
                     Respond2xx(r, tok) =>
                       /\ requests' = Without(r) (+)
                            SetToBag({AuthRequest("login", "signup",
                                        r.credentials, 1, FALSE, 0)})
                       /\ UNCHANGED <<token, isAuthenticated, lastResult>>
                /\ FailureOf(r) =>
                       /\ requests' = Without(r)
                       /\ lastResult'.caller = "signup"
                       /\ lastResult'.outcome = "rejected"
                       /\ isAuthenticated' = isAuthenticated
           /\ (r.kind = "login" /\ r.caller = "signup" /\ FailureOf(r)) =>
                /\ requests' = Without(r)
                /\ lastResult'.caller = "signup"
                /\ lastResult'.outcome = "rejected"
                /\ isAuthenticated' = isAuthenticated
      /\ \A c \in Credentials :
           LET q == AuthRequest("login", "signup", c, 1, FALSE, 0) IN
           CopiesIn(q, requests') > CopiesIn(q, requests) =>
             \E r \in Outstanding :
                /\ r.kind = "signup" /\ r.credentials = c /\ ~r.waiting
                /\ requests' = Without(r) (+) SetToBag({q}) ]_vars

\* C11 witness: a signup went through both steps; its login was answered with
\* success and the session is authenticated.
C11_Witness ==
  /\ lastResult = [kind |-> "login", caller |-> "signup",
                   outcome |-> "fulfilled", status |-> 200]
  /\ token \in Tokens
  /\ isAuthenticated

\* C12: logout, from any session state, leaves no persisted token and the
\* session unauthenticated, and issues no request.
C12_LogoutClearsSession ==
  [][ logout => /\ token' = NoToken
                /\ isAuthenticated' = FALSE
                /\ requests' = requests ]_vars

\* C12 witness: logout has returned while a token was gone from storage, the
\* flag is false and a request issued earlier is still outstanding.
C12_Witness ==
  /\ lastResult = LoggedOut
  /\ token = NoToken
  /\ ~isAuthenticated
  /\ requests # EmptyBag

\* C23: the mount effect sets isAuthenticated to "a token is persisted",
\* ends the loading phase, and neither issues a request nor touches the
\* token; a persisted token is dropped only by the answer 401 to a request or
\* by logout.
C23_MountTrustsPersistedToken ==
  [][ /\ AuthMount =>
            /\ isAuthenticated' = (token # NoToken)
            /\ ~isLoading'
            /\ requests' = requests
            /\ token' = token
      /\ (token # NoToken /\ token' = NoToken) =>
            \/ lastResult' = LoggedOut
            \/ (lastResult'.outcome = "rejected" /\ lastResult'.status = 401)
    ]_vars

\* C23 witness: the holder has mounted with a token persisted: the session is
\* authenticated, nothing was asked of the backend and nothing has answered.
C23_Witness ==
  /\ ~isLoading /\ isAuthenticated /\ token # NoToken
  /\ requests = EmptyBag /\ lastResult = NoResult

\* C25: once the mount effect has run, isAuthenticated is true exactly when
\* a token is persisted.
C25_FlagMatchesToken ==
  ~isLoading => (isAuthenticated <=> token # NoToken)

\* ------------------------------------------------------------------------
\* Collection import flow.  Two versions of IntegratorApp are in the
\* repository: components/IntegratorApp.tsx has its own upload form and
\* handleUpload; unnamed/part_002 mounts ImportCollection (unnamed/part_004)
\* and receives each imported collection through handleCollectionImported.
\* In part_004 the upload form is commented out of the render, so its
\* handleUpload has no caller and imports go through handleBulkImport.
\* ------------------------------------------------------------------------
MaxCollections == 3  \* entries of the locally tracked list
MaxSaves == 2        \* saveCollection calls of file uploads in flight
MaxFetches == 1      \* fetchCollections calls in flight
MaxStatusTimers == 1 \* pending importStatus timers

otherThanImport == <<browserVars, serverVars, httpVars, snapshotVars, groupVars, compareVars, noticeVars>>

c1 == <<"c","1">>

c2 == <<"c","2">>

apiName == <<"A","P","I">>

CollectionIds == {c1, c2}

Collection(id, name) == [id |-> id, name |-> name]

\* What JSON.parse makes of the selected file
NotJson == [json |-> FALSE]

Parsed(hasInfo, id, name) ==
  [json |-> TRUE, hasInfo |-> hasInfo, _postman_id |-> id, name |-> name]

UploadFiles ==
  { NotJson,
    Parsed(FALSE, undefined, undefined),
    Parsed(TRUE, undefined, apiName),
    Parsed(TRUE, c1, undefined),
    Parsed(TRUE, c1, apiName),
    Parsed(TRUE, c2, apiName) }

File(content) == [selected |-> TRUE, content |-> content]

\* Lists served by GET /collections/user and GET /collections: the ids of a
\* served list are distinct
ServedLists ==
  { <<>>, <<Collection(c1, apiName)>>, <<Collection(c2, apiName)>>,
    <<Collection(c1, apiName), Collection(c2, apiName)>> }

Notice(ntype, message) == [type |-> ntype, message |-> message]

CountNotice(ntype, message, count) ==
  [type |-> ntype, message |-> message, count |-> count]

InitImport ==
  /\ variant \in {"IntegratorApp.tsx", "part_002"}
  /\ collections = <<>>
  /\ isLoadingApp = FALSE
  /\ selectedFile = NoFile
  /\ saves = EmptyBag
  /\ fetches = 0
  \* the mount effect of ImportCollection has called fetchPostmanCollections
  /\ postmanCollections = <<>>
  /\ isFetchingCollections = (variant = "part_002")
  /\ importError = ""
  /\ lastBatch = NoBatch
  /\ selectedCollectionIds = {}
  /\ importStatus = "idle"
  /\ bulk = NoBulk
  /\ statusTimers = 0
  /\ lastNotice = NoNotice
  /\ BrowserUnused
  /\ ServerUnused
  /\ HttpIdle
  /\ SnapshotsIdle
  /\ GroupsIdle
  /\ CompareIdle
  /\ NotifyIdle

\* fetchCollections up to its await
fetchCollections ==
  /\ fetches < MaxFetches
  /\ fetches' = fetches + 1
  /\ isLoadingApp' = TRUE
  /\ UNCHANGED <<variant, isFetchingCollections, importError, lastBatch, collections, selectedFile, saves, postmanCollections,
                 selectedCollectionIds, importStatus, bulk, statusTimers,
                 lastNotice>>
  /\ UNCHANGED otherThanImport

\* fetchCollections after getUserCollections resolved
FetchCollectionsDone(data) ==
  /\ fetches > 0
  /\ fetches' = fetches - 1
  /\ collections' = data
  /\ isLoadingApp' = FALSE
  /\ UNCHANGED <<variant, isFetchingCollections, importError, lastBatch, selectedFile, saves, postmanCollections,
                 selectedCollectionIds, importStatus, bulk, statusTimers,
                 lastNotice>>
  /\ UNCHANGED otherThanImport

\* fetchCollections after getUserCollections rejected
FetchCollectionsFailed ==
  /\ fetches > 0
  /\ fetches' = fetches - 1
  /\ lastNotice' = Notice("error", "Failed to fetch collections")
  /\ isLoadingApp' = FALSE
  /\ UNCHANGED <<variant, isFetchingCollections, importError, lastBatch, collections, selectedFile, saves, postmanCollections,
                 selectedCollectionIds, importStatus, bulk, statusTimers>>
  /\ UNCHANGED otherThanImport

\* handleFileSelect of IntegratorApp.tsx
handleFileSelect(content) ==
  /\ variant = "IntegratorApp.tsx"
  /\ selectedFile' = File(content)
  /\ lastNotice' = Notice("info", "Selected file")
  /\ UNCHANGED <<variant, isFetchingCollections, importError, lastBatch, collections, isLoadingApp, saves, fetches,
                 postmanCollections, selectedCollectionIds, importStatus, bulk,
                 statusTimers>>
  /\ UNCHANGED otherThanImport

\* handleUpload of IntegratorApp.tsx with the reader's onload up to its await.
\* The submit button is disabled without a file and while isLoading.
\* setIsLoading(true) is followed by setIsLoading(false) in the same handler.
\* Reading info._postman_id of a content without info throws inside the try.
handleUpload ==
  /\ variant = "IntegratorApp.tsx"
  /\ selectedFile # NoFile
  /\ ~isLoadingApp
  /\ BagCardinality(saves) < MaxSaves
  /\ isLoadingApp' = FALSE
  /\ LET content == selectedFile.content IN
     IF ~content.json \/ ~content.hasInfo
     THEN /\ lastNotice' = Notice("error", "Failed to import collection")
          /\ UNCHANGED saves
     ELSE /\ saves' = saves (+)
                SetToBag({Collection(content._postman_id, content.name)})
          /\ UNCHANGED lastNotice
  /\ UNCHANGED <<variant, isFetchingCollections, importError, lastBatch, collections, selectedFile, fetches, postmanCollections,
                 selectedCollectionIds, importStatus, bulk, statusTimers>>
  /\ UNCHANGED otherThanImport

\* onload of IntegratorApp.tsx after saveCollection resolved: the entry is
\* appended to the list
SaveDone(c) ==
  /\ c \in BagToSet(saves)
  /\ Len(collections) < MaxCollections
  /\ saves' = saves (-) SetToBag({c})
  /\ lastNotice' = Notice("success", "Collection imported successfully")
  /\ selectedFile' = NoFile
  /\ collections' = Append(collections, c)
  /\ UNCHANGED <<variant, isFetchingCollections, importError, lastBatch, isLoadingApp, fetches, postmanCollections,
                 selectedCollectionIds, importStatus, bulk, statusTimers>>
  /\ UNCHANGED otherThanImport

\* onload of IntegratorApp.tsx after saveCollection rejected
SaveFailed(c) ==
  /\ c \in BagToSet(saves)
  /\ saves' = saves (-) SetToBag({c})
  /\ lastNotice' = Notice("error", "Failed to import collection")
  /\ UNCHANGED <<variant, isFetchingCollections, importError, lastBatch, collections, isLoadingApp, selectedFile, fetches,
                 postmanCollections, selectedCollectionIds, importStatus, bulk,
                 statusTimers>>
  /\ UNCHANGED otherThanImport

\* handleCollectionImported of part_002: the updater of setCollections
handleCollectionImported(prev, collection) ==
  IF \E i \in 1..Len(prev) : prev[i].id = collection.id
  THEN prev
  ELSE Append(prev, collection)

\* fetchPostmanCollections of part_004 up to its await, from the Refresh
\* button, which is disabled while a fetch is outstanding
fetchPostmanCollections ==
  /\ variant = "part_002"
  /\ ~isFetchingCollections
  /\ isFetchingCollections' = TRUE
  /\ importError' = ""
  /\ UNCHANGED <<variant, collections, isLoadingApp, selectedFile, saves, fetches,
                 postmanCollections, selectedCollectionIds, importStatus, bulk,
                 statusTimers, lastNotice, lastBatch>>
  /\ UNCHANGED otherThanImport

\* fetchPostmanCollections after getCollections resolved
PostmanCollectionsFetched(list) ==
  /\ isFetchingCollections
  /\ postmanCollections' = list
  /\ isFetchingCollections' = FALSE
  /\ UNCHANGED <<variant, collections, isLoadingApp, selectedFile, saves, fetches,
                 selectedCollectionIds, importStatus, bulk, statusTimers,
                 lastNotice, importError, lastBatch>>
  /\ UNCHANGED otherThanImport

\* fetchPostmanCollections after getCollections rejected
PostmanCollectionsFailed ==
  /\ isFetchingCollections
  /\ importError' = "Failed to fetch collections from Postman API"
  /\ postmanCollections' = <<>>
  /\ isFetchingCollections' = FALSE
  /\ UNCHANGED <<variant, collections, isLoadingApp, selectedFile, saves, fetches,
                 selectedCollectionIds, importStatus, bulk, statusTimers,
                 lastNotice, lastBatch>>
  /\ UNCHANGED otherThanImport

\* The grid of collections and the Import Selected button above it are
\* rendered while no fetch is outstanding and the list is not empty
GridShown == ~isFetchingCollections /\ postmanCollections # <<>>

\* handleCollectionToggle of part_004
handleCollectionToggle(collectionId) ==
  /\ variant = "part_002"
  /\ GridShown
  /\ \E i \in 1..Len(postmanCollections) : postmanCollections[i].id = collectionId
  /\ selectedCollectionIds' =
       IF collectionId \in selectedCollectionIds
       THEN selectedCollectionIds \ {collectionId}
       ELSE selectedCollectionIds \cup {collectionId}
  /\ UNCHANGED <<variant, isFetchingCollections, importError, lastBatch, collections, isLoadingApp, selectedFile, saves, fetches,
                 postmanCollections, importStatus, bulk, statusTimers,
                 lastNotice>>
  /\ UNCHANGED otherThanImport

\* postmanCollections.filter(col => selectedCollectionIds.has(col.id))
RECURSIVE selectedOf(_, _)
selectedOf(list, ids) ==
  IF list = <<>> THEN <<>>
  ELSE IF list[1].id \in ids
       THEN <<list[1]>> \o selectedOf(Tail(list), ids)
       ELSE selectedOf(Tail(list), ids)

\* The end of handleBulkImport: the notifications, the cleared selection, the
\* status, the finally block; run is the loop's record after its last turn
BulkEnd(run) ==
  /\ bulk' = NoBulk
  /\ lastNotice' =
       IF run.errorCount > 0
       THEN CountNotice("error", "Failed to import", run.errorCount)
       ELSE IF run.successCount > 0
       THEN CountNotice("success", "Successfully imported", run.successCount)
       ELSE lastNotice
  /\ selectedCollectionIds' = {}
  /\ importStatus' = IF run.errorCount = 0 THEN "success" ELSE "error"
  /\ isLoadingApp' = FALSE
  /\ statusTimers' = statusTimers + 1
  /\ lastBatch' = [ended |-> TRUE, selected |-> run.selected,
                   attempted |-> run.attempted, notified |-> run.notified,
                   successCount |-> run.successCount,
                   errorCount |-> run.errorCount]

\* handleBulkImport of part_004 up to the first await of its loop.  The
\* button is rendered with the grid while something is selected and is
\* disabled while importStatus is 'importing'.  One run at a time is modelled.
\* selected, attempted and notified are history.
handleBulkImport ==
  /\ variant = "part_002"
  /\ GridShown
  /\ selectedCollectionIds # {}
  /\ importStatus # "importing"
  /\ bulk = NoBulk
  /\ statusTimers < MaxStatusTimers
  /\ LET run == [running |-> TRUE,
                 rest |-> selectedOf(postmanCollections, selectedCollectionIds),
                 successCount |-> 0, errorCount |-> 0,
                 selected |-> selectedCollectionIds, attempted |-> <<>>,
                 notified |-> <<>>]
     IN  IF run.rest = <<>>
         THEN BulkEnd(run)
         ELSE /\ importStatus' = "importing"
              /\ isLoadingApp' = TRUE
              /\ bulk' = run
              /\ UNCHANGED <<selectedCollectionIds, statusTimers, lastNotice,
                             lastBatch>>
  /\ UNCHANGED <<variant, isFetchingCollections, importError, collections,
                 selectedFile, saves, fetches, postmanCollections>>
  /\ UNCHANGED otherThanImport

\* One turn of the loop of handleBulkImport: saveCollection of the first
\* remaining collection resolved (ok) or rejected; after the last turn the
\* end of the handler.
BulkSaveSettled(ok) ==
  /\ bulk # NoBulk
  /\ LET collection == bulk.rest[1]
         run == [bulk EXCEPT
                   !.rest = Tail(@),
                   !.successCount = @ + (IF ok THEN 1 ELSE 0),
                   !.errorCount = @ + (IF ok THEN 0 ELSE 1),
                   !.attempted = Append(@, collection.id),
                   !.notified = IF ok THEN Append(@, collection.id) ELSE @]
     IN  /\ collections' =
              IF ok THEN handleCollectionImported(collections,
                           Collection(collection.id, collection.name))
              ELSE collections
         /\ IF run.rest # <<>>
            THEN /\ bulk' = run
                 /\ UNCHANGED <<lastNotice, selectedCollectionIds, importStatus,
                                isLoadingApp, statusTimers, lastBatch>>
            ELSE BulkEnd(run)
  /\ UNCHANGED <<variant, isFetchingCollections, importError, selectedFile,
                 saves, fetches, postmanCollections>>
  /\ UNCHANGED otherThanImport

\* setTimeout(() => setImportStatus('idle'), 3000) of the finally block
ImportStatusTimer ==
  /\ statusTimers > 0
  /\ statusTimers' = statusTimers - 1
  /\ importStatus' = "idle"
  /\ UNCHANGED <<variant, isFetchingCollections, importError, lastBatch, collections, isLoadingApp, selectedFile, saves, fetches,
                 postmanCollections, selectedCollectionIds, bulk, lastNotice>>
  /\ UNCHANGED otherThanImport

\* the saveCollection calls an upload can make
SaveCalls ==
  { Collection(id, name) :
      id \in CollectionIds \cup {undefined}, name \in {apiName, undefined} }

NextImport ==
  \/ fetchCollections
  \/ \E data \in ServedLists : FetchCollectionsDone(data)
  \/ FetchCollectionsFailed
  \/ \E content \in UploadFiles : handleFileSelect(content)
  \/ handleUpload
  \/ \E c \in SaveCalls : SaveDone(c)
  \/ \E c \in SaveCalls : SaveFailed(c)
  \/ fetchPostmanCollections
  \/ \E list \in ServedLists : PostmanCollectionsFetched(list)
  \/ PostmanCollectionsFailed
  \/ \E collectionId \in CollectionIds : handleCollectionToggle(collectionId)
  \/ handleBulkImport
  \/ \E ok \in BOOLEAN : BulkSaveSettled(ok)
  \/ ImportStatusTimer

SpecImport == InitImport /\ [][NextImport]_vars

\* C6: after any sequence of collection imports the locally tracked list
\* never holds two entries with the same id.
C6_NoDuplicateIds ==
  \A i, j \in 1..Len(collections) :
     i # j => collections[i].id # collections[j].id

\* C14: a file upload never submits saveCollection for a document that lacks
\* the collection id or the collection name.
C14_NoSaveWithoutIdAndName ==
  \A c \in BagToSet(saves) : c.id # undefined /\ c.name # undefined

\* The step on which a handleBulkImport ends (only BulkEnd sets a status timer)
BatchEnds == statusTimers' = statusTimers + 1

Range(seq) == { seq[i] : i \in 1..Len(seq) }

\* C13: when a bulk import ends, every collection that was selected has been
\* attempted exactly once, successCount + errorCount is the number of selected
\* collections, the parent was notified once per success and never for a
\* failure, the selection is empty, and importStatus is 'success' exactly when
\* errorCount is 0.
C13_BulkImportTallies ==
  [][ BatchEnds =>
        /\ Range(lastBatch'.attempted) = lastBatch'.selected
        /\ Len(lastBatch'.attempted) = Cardinality(lastBatch'.selected)
        /\ lastBatch'.successCount + lastBatch'.errorCount
             = Cardinality(lastBatch'.selected)
        /\ Len(lastBatch'.notified) = lastBatch'.successCount
        /\ Range(lastBatch'.notified) \subseteq Range(lastBatch'.attempted)
        /\ selectedCollectionIds' = {}
        /\ (importStatus' = "success") <=> (lastBatch'.errorCount = 0) ]_vars

\* ------------------------------------------------------------------------
\* Snapshot list (components/CollectionSnapshotsPage.tsx)
\* ------------------------------------------------------------------------
MaxSnapshotFetches == 2   \* getCollectionSnapshots calls in flight

otherThanSnapshots == <<browserVars, serverVars, httpVars, importVars, groupVars, compareVars, noticeVars>>

\* x || d for a number x that is not NaN
Or(x, d) == IF x = 0 THEN d ELSE x

Snapshot(id) == [id |-> id, collection_id |-> c1, collection_name |-> apiName]

\* Bodies served by GET /collections/{id}/snapshots.  A number 0 also stands
\* for a missing field (both are falsy); hasData is false when data is missing.
ServedPages == {-1, 0, 2}

ServedTotalPages == {0, 2}

ServedPageSizes == {0, 5}

ServedTotalItems == {0, 12}

ServedData ==
  { [hasData |-> FALSE, data |-> <<>>], [hasData |-> TRUE, data |-> <<>>],
    [hasData |-> TRUE, data |-> <<Snapshot(1)>>],
    [hasData |-> TRUE, data |-> <<Snapshot(2), Snapshot(1)>>] }

SnapshotPages ==
  { [hasData |-> d.hasData, data |-> d.data, page |-> p, pageSize |-> ps,
     totalPages |-> tp, totalItems |-> ti] :
      d \in ServedData, p \in ServedPages, ps \in ServedPageSizes,
      tp \in ServedTotalPages, ti \in ServedTotalItems }

SnapshotRequest(pg, pgSize, origin) ==
  [page |-> pg, pageSize |-> pgSize, origin |-> origin]

\* fetchSnapshots(page, pageSize) up to its await
fetchSnapshots(pg, pgSize, origin) ==
  /\ snapLoading' = TRUE
  /\ snapError' = NoError
  /\ snapRequests' = snapRequests (+) SetToBag({SnapshotRequest(pg, pgSize, origin)})

InitSnapshots ==
  /\ propCollectionId \in {<<>>, c1}
  /\ snapshots = <<>>
  /\ snapLoading = TRUE
  /\ snapError = NoError
  /\ fetchingSnapshot = FALSE
  /\ collectionInfo = null
  /\ pagination = [page |-> 1, pageSize |-> DEFAULT_PAGE_SIZE,
                   totalPages |-> 1, totalItems |-> 0]
  /\ snapRequests = EmptyBag
  /\ capture = NoCapture
  /\ snapLastOp = "none"
  /\ BrowserUnused
  /\ ServerUnused
  /\ HttpIdle
  /\ ImportIdle
  /\ GroupsIdle
  /\ CompareIdle
  /\ NotifyIdle

\* The effect on [collectionId], at mount
MountSnapshots ==
  /\ snapLastOp = "none"
  /\ snapLastOp' = "mount"
  /\ IF propCollectionId # <<>>
     THEN fetchSnapshots(1, pagination.pageSize, "mount")
     ELSE UNCHANGED <<snapLoading, snapError, snapRequests>>
  /\ UNCHANGED <<propCollectionId, snapshots, fetchingSnapshot, collectionInfo,
                 pagination, capture>>
  /\ UNCHANGED otherThanSnapshots

\* handlePageChange without its range check
handlePageChange_unchecked(newPage) ==
  fetchSnapshots(newPage, pagination.pageSize, "page")

\* handlePageChange(newPage)
handlePageChange(newPage) ==
  IF newPage < 1 \/ newPage > pagination.totalPages
  THEN UNCHANGED <<snapLoading, snapError, snapRequests>>
  ELSE fetchSnapshots(newPage, pagination.pageSize, "page")

\* The table and its pagination buttons are rendered while not loading and
\* the list is not empty
TableShown == ~snapLoading /\ snapshots # <<>>

OutOfRange(newPage) == newPage < 1 \/ newPage > pagination.totalPages

PageTarget(direction) ==
  IF direction = "prev" THEN pagination.page - 1 ELSE pagination.page + 1

\* The Previous and Next buttons: disabled on page 1 and on the last page
PageButton(direction) ==
  /\ snapLastOp # "none"
  /\ TableShown
  /\ BagCardinality(snapRequests) < MaxSnapshotFetches
  /\ IF direction = "prev" THEN pagination.page # 1
     ELSE pagination.page # pagination.totalPages
  /\ handlePageChange(PageTarget(direction))
  /\ snapLastOp' = IF OutOfRange(PageTarget(direction)) THEN "page ignored"
                   ELSE "page"
  /\ UNCHANGED <<propCollectionId, snapshots, fetchingSnapshot, collectionInfo,
                 pagination, capture>>
  /\ UNCHANGED otherThanSnapshots

\* disabled={fetchingSnapshot || !collectionInfo} of both Create buttons
CreateDisabled == fetchingSnapshot \/ collectionInfo = null

\* handleFetchSnapshot up to its first await.  Both Create buttons are
\* disabled while fetchingSnapshot or without collectionInfo, which is also
\* the handler's own check.  The handler closes over pagination.
handleFetchSnapshot ==
  /\ snapLastOp # "none"
  /\ ~CreateDisabled
  /\ fetchingSnapshot' = TRUE
  /\ snapError' = NoError
  /\ capture' = [pending |-> TRUE, id |-> collectionInfo.id,
                 name |-> collectionInfo.name,
                 page |-> pagination.page, pageSize |-> pagination.pageSize]
  /\ snapLastOp' = "create"
  /\ UNCHANGED <<propCollectionId, snapshots, snapLoading, collectionInfo,
                 pagination, snapRequests>>
  /\ UNCHANGED otherThanSnapshots

\* handleFetchSnapshot after the capture resolved, refetching page 1
refetchAfterCapture_firstPage ==
  fetchSnapshots(1, capture.pageSize, "create")

\* handleFetchSnapshot after the capture resolved:
\* await fetchSnapshots(pagination.page, pagination.pageSize)
refetchAfterCapture ==
  fetchSnapshots(capture.page, capture.pageSize, "create")

\* refreshSnapShots resolved
CaptureDone ==
  /\ capture # NoCapture
  /\ BagCardinality(snapRequests) < MaxSnapshotFetches
  /\ capture' = NoCapture
  /\ refetchAfterCapture
  /\ snapLastOp' = "captured"
  /\ UNCHANGED <<propCollectionId, snapshots, fetchingSnapshot, collectionInfo,
                 pagination>>
  /\ UNCHANGED otherThanSnapshots

\* refreshSnapShots rejected: the catch and the finally of handleFetchSnapshot
CaptureFailed ==
  /\ capture # NoCapture
  /\ capture' = NoCapture
  /\ snapError' = "Failed to create snapshot"
  /\ fetchingSnapshot' = FALSE
  /\ snapLastOp' = "capture failed"
  /\ UNCHANGED <<propCollectionId, snapshots, snapLoading, collectionInfo,
                 pagination, snapRequests>>
  /\ UNCHANGED otherThanSnapshots

\* The collection info after a fetch, were an empty page to fall back on the
\* collectionId prop
collectionInfoAfter_fromProp(body) ==
  IF body.hasData /\ Len(body.data) > 0
  THEN [id |-> body.data[1].collection_id,
        name |-> body.data[1].collection_name]
  ELSE [id |-> propCollectionId, name |-> <<>>]

\* if (data.data && data.data.length > 0) setCollectionInfo({...data.data[0]})
collectionInfoAfter(body) ==
  IF body.hasData /\ Len(body.data) > 0
  THEN [id |-> body.data[1].collection_id,
        name |-> body.data[1].collection_name]
  ELSE collectionInfo

\* fetchSnapshots after getCollectionSnapshots resolved; the fetch awaited by
\* handleFetchSnapshot then lets its finally run
SnapshotsFetched(r, body) ==
  /\ r \in BagToSet(snapRequests)
  /\ snapRequests' = snapRequests (-) SetToBag({r})
  /\ snapshots' = body.data
  /\ collectionInfo' = collectionInfoAfter(body)
  /\ pagination' = [page |-> Or(body.page, 1),
                    pageSize |-> Or(body.pageSize, DEFAULT_PAGE_SIZE),
                    totalPages |-> Or(body.totalPages, 1),
                    totalItems |-> Or(body.totalItems, Len(body.data))]
  /\ snapLoading' = FALSE
  /\ fetchingSnapshot' = IF r.origin = "create" THEN FALSE ELSE fetchingSnapshot
  /\ snapLastOp' = IF r.origin = "create" THEN "refetched" ELSE "fetched"
  /\ UNCHANGED <<propCollectionId, snapError, capture>>
  /\ UNCHANGED otherThanSnapshots

\* fetchSnapshots after getCollectionSnapshots rejected
SnapshotsFailed(r) ==
  /\ r \in BagToSet(snapRequests)
  /\ snapRequests' = snapRequests (-) SetToBag({r})
  /\ snapError' = "Failed to fetch snapshots"
  /\ snapLoading' = FALSE
  /\ fetchingSnapshot' = IF r.origin = "create" THEN FALSE ELSE fetchingSnapshot
  /\ snapLastOp' = "fetch failed"
  /\ UNCHANGED <<propCollectionId, snapshots, collectionInfo, pagination,
                 capture>>
  /\ UNCHANGED otherThanSnapshots

SnapshotRequests ==
  { SnapshotRequest(pg, pgSize, origin) :
      pg \in {-1, 1, 2}, pgSize \in {5, DEFAULT_PAGE_SIZE},
      origin \in {"mount", "page", "create"} }

NextSnapshots ==
  \/ MountSnapshots
  \/ \E direction \in {"prev", "next"} : PageButton(direction)
  \/ handleFetchSnapshot
  \/ CaptureDone
  \/ CaptureFailed
  \/ \E r \in SnapshotRequests : \E body \in SnapshotPages : SnapshotsFetched(r, body)
  \/ \E r \in SnapshotRequests : SnapshotsFailed(r)

SpecSnapshots == InitSnapshots /\ [][NextSnapshots]_vars

\* C15: a page change to a page number below 1 or above totalPages issues no
\* request and leaves snapshots, pagination, loading and error unchanged.
C15_PageOutOfRangeIsNoOp ==
  [][ \A direction \in {"prev", "next"} :
        (PageButton(direction) /\ OutOfRange(PageTarget(direction)))
          => UNCHANGED <<snapshots, pagination, snapLoading, snapError,
                         snapRequests>> ]_vars

\* C15 witness: a page button asked for a page outside 1..totalPages and no
\* request is in flight.
C15_Witness ==
  /\ snapLastOp = "page ignored"
  /\ snapRequests = EmptyBag
  /\ ~snapLoading

CreateInProgress ==
  capture # NoCapture \/ \E r \in BagToSet(snapRequests) : r.origin = "create"

\* C16: Create snapshot issues no capture request while the collection's id
\* and name are unknown; when the capture succeeds, the page that was current
\* when Create was pressed is fetched again, with its page size, and the list
\* is not touched by the capture itself; when the capture fails an error is
\* shown and the list is unchanged; fetchingSnapshot is true exactly while the
\* action is in progress.
C16_CreateSnapshotRefetchesInPlace ==
  /\ [](fetchingSnapshot <=> CreateInProgress)
  /\ [][ /\ (capture = NoCapture /\ capture' # NoCapture) =>
              /\ collectionInfo # null
              /\ capture'.id = collectionInfo.id
              /\ capture'.name = collectionInfo.name
              /\ capture'.page = pagination.page
              /\ capture'.pageSize = pagination.pageSize
              /\ UNCHANGED <<snapshots, snapRequests>>
         /\ CaptureDone =>
              /\ snapRequests' = snapRequests (+)
                   SetToBag({SnapshotRequest(capture.page, capture.pageSize,
                                             "create")})
              /\ UNCHANGED <<snapshots, pagination>>
         /\ CaptureFailed =>
              /\ snapError' # NoError
              /\ UNCHANGED <<snapshots, pagination, snapRequests>> ]_vars

\* C16 witness: a capture made from page 2 has succeeded and the fetch of
\* page 2 it issued is in flight.
C16_Witness ==
  /\ snapLastOp = "captured"
  /\ fetchingSnapshot
  /\ \E r \in BagToSet(snapRequests) : r.origin = "create" /\ r.page = 2

FirstSnapshotInfo(list) ==
  [id |-> list[1].collection_id, name |-> list[1].collection_name]

\* C28: collection info is set only from the first snapshot of a non-empty
\* fetched page; while it is unknown (every fetch so far returned an empty
\* list) the Create action is disabled and no capture request is issued or
\* outstanding.
C28_InfoOnlyFromFetchedSnapshot ==
  /\ [](collectionInfo = null =>
          CreateDisabled /\ capture = NoCapture /\ ~fetchingSnapshot)
  /\ [][ /\ collectionInfo' # collectionInfo =>
              /\ snapLastOp' \in {"fetched", "refetched"}
              /\ snapshots' # <<>>
              /\ collectionInfo' = FirstSnapshotInfo(snapshots')
         /\ (snapLastOp' \in {"fetched", "refetched"} /\ snapshots' = <<>>)
              => collectionInfo' = collectionInfo
         /\ (collectionInfo = null /\ snapshots' = <<>>)
              => (collectionInfo' = null /\ capture' = NoCapture) ]_vars

\* C28 witness: a fetch has returned an empty list, nothing is outstanding,
\* the collection info is unknown and Create is disabled.
C28_Witness ==
  /\ snapLastOp = "fetched"
  /\ snapshots = <<>>
  /\ snapRequests = EmptyBag
  /\ ~snapLoading
  /\ collectionInfo = null
  /\ CreateDisabled
  /\ capture = NoCapture

\* ------------------------------------------------------------------------
\* Group headers: expansion state of the diff browser
\* ------------------------------------------------------------------------
MaxExpandChanges == 2   \* longest change list passed while groups are toggled

ExpandPool ==
  { Change(1, added,    <<"a">>, <<"q">>, <<"E">>),
    Change(2, modified, <<"q">>, <<"B">>, undefined) }

ExpandDiffData ==
  { [changes |-> cs] : cs \in ChangeListsOver(ExpandPool, MaxExpandChanges) }

\* Labels a group header can carry for the change-sets of ExpandPool
SectionKeys ==
  { groupKey(c, gb) : c \in ExpandPool, gb \in {endpoint, type} }

\* toggleGroup of the server-paginated browser, as the function it passes to
\* setExpandedGroups
toggleGroup(prev, groupName) ==
  IF groupName \in prev THEN prev \ {groupName} ELSE prev \cup {groupName}

toggleSection_collapsingOthers(sectionKey) ==
  expandedSections' =
    (IF sectionKey \in expandedSections THEN {} ELSE {sectionKey})

\* toggleSection of the client-filtering browser
toggleSection(sectionKey) ==
  expandedSections' =
    (IF sectionKey \in expandedSections
     THEN expandedSections \ {sectionKey}
     ELSE expandedSections \cup {sectionKey})

\* Labels of the group headers rendered
HeadersShown ==
  IF ControlsShown /\ groupBy # none /\ ~groupedChanges.threw
  THEN { groupedChanges.entries[i].key : i \in 1..Len(groupedChanges.entries) }
  ELSE {}

\* Click on the header of a group
ClickSection(sectionKey) ==
  /\ sectionKey \in HeadersShown
  /\ toggleSection(sectionKey)
  /\ lastOp' = "toggle"
  /\ UNCHANGED <<mounted, diffData, searchTerm, filterType, groupBy,
                 selectedChange, currentChangeIndex, view>>
  /\ UNCHANGED <<serverVars, httpVars, importVars, snapshotVars, compareVars, noticeVars>>

InitExpand ==
  /\ mounted = FALSE
  /\ diffData \in ExpandDiffData \cup {null}
  /\ searchTerm = <<>>
  /\ filterType = all
  /\ groupBy = endpoint
  /\ selectedChange = null
  /\ currentChangeIndex = 0
  /\ view = NotRendered
  /\ lastOp = "init"
  /\ ServerUnused
  /\ HttpIdle
  /\ ImportIdle
  /\ SnapshotsIdle
  /\ GroupsIdle
  /\ CompareIdle
  /\ NotifyIdle

NextExpand ==
  \/ MountClient
  \/ \E data \in ExpandDiffData \cup {null} : ReceiveDiffData(data)
  \/ \E term \in SearchTermsUpTo(MaxNavSearchLen) : setSearchTerm(term)
  \/ \E ftype \in FilterTypes : setFilterType(ftype)
  \/ \E gb \in GroupBys : setGroupBy(gb)
  \/ \E i \in 1..MaxExpandChanges : ClickChange(i)
  \/ \E direction \in {"prev", "next"} : ClickNavigate(direction)
  \/ \E sectionKey \in SectionKeys : ClickSection(sectionKey)

SpecExpand == InitExpand /\ [][NextExpand]_vars

\* C22: no group is expanded before the first toggle; a toggle flips the
\* state of the label toggled and of no other label; no other step (search,
\* filter, group-by, a new change-set, selection) changes the set of expanded
\* labels; toggling a label twice restores the set.
C22_ExpansionKeyedByLabel ==
  /\ [](~mounted => expandedSections = {})
  /\ [](\A prev \in SUBSET SectionKeys : \A groupName \in SectionKeys :
           /\ (groupName \in toggleGroup(prev, groupName)) <=> (groupName \notin prev)
           /\ toggleGroup(prev, groupName) \ {groupName} = prev \ {groupName}
           /\ toggleGroup(toggleGroup(prev, groupName), groupName) = prev)
  /\ [][ /\ \A sectionKey \in HeadersShown :
              ClickSection(sectionKey) =>
                /\ (sectionKey \in expandedSections') <=> (sectionKey \notin expandedSections)
                /\ expandedSections' \ {sectionKey} = expandedSections \ {sectionKey}
         /\ lastOp' # "toggle" => expandedSections' = expandedSections ]_vars

\* C22 witness: a label expanded earlier is still expanded, and its group is
\* shown, right after the parent passed another change-set.
C22_Witness ==
  /\ lastOp = "diffData"
  /\ expandedSections \cap HeadersShown # {}
  /\ expandedSections \ HeadersShown # {}

\* ------------------------------------------------------------------------
\* Snapshot comparison (components/CompareSnapshots.tsx)
\* ------------------------------------------------------------------------
MaxCompareId == 2   \* snapshot ids offered by the two selects: 1..MaxCompareId

otherThanCompare == <<browserVars, serverVars, httpVars, importVars,
                      snapshotVars, groupVars, noticeVars>>

SelectBothMessage == "Please select both snapshots to compare"
SelectDifferentMessage == "Please select different snapshots to compare"
CompareFailedMessage == "Failed to compare snapshots"

\* Bodies served by GET /collections/snapshot/compare/{collectionId}
CompareBodies ==
  { [collection_id |-> c1, snapshot_id |-> id] : id \in 1..MaxCompareId }

\* changesService.compareSnapshots(collectionId, snapShotIdOne, snapShotIdTwo)
compareSnapshots(collectionId, snapShotIdOne, snapShotIdTwo) ==
  [collectionId |-> collectionId, snapShotIdOne |-> snapShotIdOne,
   snapShotIdTwo |-> snapShotIdTwo]

\* onChange of a select: e.target.value ? Number(e.target.value) : null
setCompareSnapshot1(id) ==
  /\ compareSnapshot1' = id
  /\ compareLastOp' = "select"
  /\ UNCHANGED <<compareData, compareSnapshot2, compareError, compareLoading,
                 compareRequests>>
  /\ UNCHANGED otherThanCompare

setCompareSnapshot2(id) ==
  /\ compareSnapshot2' = id
  /\ compareLastOp' = "select"
  /\ UNCHANGED <<compareData, compareSnapshot1, compareError, compareLoading,
                 compareRequests>>
  /\ UNCHANGED otherThanCompare

\* loadCompareSnapshots without its check that the two ids differ
loadCompareSnapshots_sameAllowed ==
  IF compareSnapshot1 = 0 \/ compareSnapshot2 = 0
  THEN /\ compareError' = SelectBothMessage
       /\ compareLastOp' = "rejected"
       /\ UNCHANGED <<compareData, compareLoading, compareRequests>>
  ELSE /\ compareLoading' = TRUE
       /\ compareRequests' =
            Append(compareRequests,
                   compareSnapshots(c1, compareSnapshot1, compareSnapshot2))
       /\ compareLastOp' = "requested"
       /\ UNCHANGED <<compareData, compareError>>

\* loadCompareSnapshots up to its await
loadCompareSnapshots ==
  IF compareSnapshot1 = 0 \/ compareSnapshot2 = 0
  THEN /\ compareError' = SelectBothMessage
       /\ compareLastOp' = "rejected"
       /\ UNCHANGED <<compareData, compareLoading, compareRequests>>
  ELSE IF compareSnapshot1 = compareSnapshot2
  THEN /\ compareError' = SelectDifferentMessage
       /\ compareLastOp' = "rejected"
       /\ UNCHANGED <<compareData, compareLoading, compareRequests>>
  ELSE /\ compareLoading' = TRUE
       /\ compareRequests' =
            Append(compareRequests,
                   compareSnapshots(c1, compareSnapshot1, compareSnapshot2))
       /\ compareLastOp' = "requested"
       /\ UNCHANGED <<compareData, compareError>>

\* disabled={!compareSnapshot1 || !compareSnapshot2 || compareLoading}
CompareDisabled ==
  compareSnapshot1 = 0 \/ compareSnapshot2 = 0 \/ compareLoading

\* The Compare button
ClickCompare ==
  /\ ~CompareDisabled
  /\ loadCompareSnapshots
  /\ UNCHANGED <<compareSnapshot1, compareSnapshot2>>
  /\ UNCHANGED otherThanCompare

\* loadCompareSnapshots after the request resolved, and its finally
CompareResponse(data) ==
  /\ compareRequests # <<>>
  /\ compareRequests' = Tail(compareRequests)
  /\ compareData' = data
  /\ compareError' = NoError
  /\ compareLoading' = FALSE
  /\ compareLastOp' = "loaded"
  /\ UNCHANGED <<compareSnapshot1, compareSnapshot2>>
  /\ UNCHANGED otherThanCompare

\* loadCompareSnapshots after the request rejected: its catch and its finally
CompareFailure ==
  /\ compareRequests # <<>>
  /\ compareRequests' = Tail(compareRequests)
  /\ compareError' = CompareFailedMessage
  /\ compareData' = null
  /\ compareLoading' = FALSE
  /\ compareLastOp' = "failed"
  /\ UNCHANGED <<compareSnapshot1, compareSnapshot2>>
  /\ UNCHANGED otherThanCompare

InitCompare ==
  /\ CompareIdle
  /\ BrowserUnused
  /\ ServerUnused
  /\ HttpIdle
  /\ ImportIdle
  /\ SnapshotsIdle
  /\ GroupsIdle
  /\ NotifyIdle

NextCompare ==
  \/ \E id \in 0..MaxCompareId : setCompareSnapshot1(id)
  \/ \E id \in 0..MaxCompareId : setCompareSnapshot2(id)
  \/ ClickCompare
  \/ \E data \in CompareBodies : CompareResponse(data)
  \/ CompareFailure

SpecCompare == InitCompare /\ [][NextCompare]_vars

BothSelectedAndDifferent ==
  /\ compareSnapshot1 # 0
  /\ compareSnapshot2 # 0
  /\ compareSnapshot1 # compareSnapshot2

MaxClock == 2           \* last reading of Date.now() at which one is added
MaxNotifications == 3   \* most notifications added and not yet expired

NOTIFICATION_MS == 5000

otherThanNotices == <<browserVars, serverVars, httpVars, importVars,
                      snapshotVars, groupVars, compareVars>>

Notification(id, ntype, message) ==
  [id |-> id, type |-> ntype, message |-> message, visible |-> TRUE]

\* prev.filter(n => n.id !== id)
WithoutId(prev, id) ==
  LET keep(n) == n.id # id IN SelectSeq(prev, keep)

NoticeState == [notifications |-> notifications, noticeTimers |-> noticeTimers]

\* addNotification(type, message), called at the clock reading t
addNotification(st, t, ntype, message) ==
  [st EXCEPT
     !.notifications = Append(@, Notification(t, ntype, message)),
     !.noticeTimers = Append(@, [id |-> t, due |-> t + NOTIFICATION_MS])]

\* The clock moves on between two events
Tick ==
  /\ now < MaxClock
  /\ now' = now + 1
  /\ noticeLastOp' = "tick"
  /\ UNCHANGED <<notifications, noticeTimers>>
  /\ UNCHANGED otherThanNotices

\* One handler reports one thing
Notify(ntype, message) ==
  /\ now <= MaxClock
  /\ Len(noticeTimers) < MaxNotifications
  /\ LET st == addNotification(NoticeState, now, ntype, message)
     IN /\ notifications' = st.notifications
        /\ noticeTimers' = st.noticeTimers
  /\ noticeLastOp' = "add"
  /\ UNCHANGED now
  /\ UNCHANGED otherThanNotices

\* The end of handleBulkImport: the successes, then the failures.  The clock
\* may or may not move on between the two calls.
BulkReport(successCount, errorCount, elapsed) ==
  /\ successCount + errorCount > 0
  /\ now + elapsed <= MaxClock
  /\ Len(noticeTimers) + 2 <= MaxNotifications
  /\ LET st1 == IF successCount > 0
                THEN addNotification(NoticeState, now, "success",
                                     "Successfully imported")
                ELSE NoticeState
         st2 == IF errorCount > 0
                THEN addNotification(st1, now + elapsed, "error",
                                     "Failed to import")
                ELSE st1
     IN /\ notifications' = st2.notifications
        /\ noticeTimers' = st2.noticeTimers
  /\ now' = now + elapsed
  /\ noticeLastOp' = "bulk"
  /\ UNCHANGED otherThanNotices

\* removeNotification(id): the close button of the i-th notification shown
removeNotification(i) ==
  /\ i \in DOMAIN notifications
  /\ notifications' = WithoutId(notifications, notifications[i].id)
  /\ noticeLastOp' = "close"
  /\ UNCHANGED <<now, noticeTimers>>
  /\ UNCHANGED otherThanNotices

\* The setTimeout callback of the addNotification that is due first
NoticeTimerFires ==
  /\ noticeTimers # <<>>
  /\ notifications' = WithoutId(notifications, Head(noticeTimers).id)
  /\ noticeTimers' = Tail(noticeTimers)
  /\ now' = IF now < Head(noticeTimers).due THEN Head(noticeTimers).due ELSE now
  /\ noticeLastOp' = "expire"
  /\ UNCHANGED otherThanNotices

InitNotify ==
  /\ NotifyIdle
  /\ BrowserUnused
  /\ ServerUnused
  /\ HttpIdle
  /\ ImportIdle
  /\ SnapshotsIdle
  /\ GroupsIdle
  /\ CompareIdle

NextNotify ==
  \/ Tick
  \/ \E ntype \in {"info", "error"} : Notify(ntype, "reported")
  \/ \E successCount, errorCount, elapsed \in 0..1 :
       BulkReport(successCount, errorCount, elapsed)
  \/ \E i \in 1..MaxNotifications : removeNotification(i)
  \/ NoticeTimerFires

SpecNotify == InitNotify /\ [][NextNotify]_vars

\* C30: any two notifications in the list at the same time have distinct
\* ids, so that closing a notification, or the expiry of its timer, removes
\* that notification and no other, also when two notifications are added at
\* the same clock reading.
C30_NotificationIdsDistinct ==
  /\ [](\A i, j \in DOMAIN notifications :
          i # j => notifications[i].id # notifications[j].id)
  /\ [][ noticeLastOp' \in {"close", "expire"} =>
           Len(notifications') >= Len(notifications) - 1 ]_vars

====
